---- MODULE Spec2Model ----
(***************************************************************************)
(* Billing core of the Lyvio platform: the Subscription records, the       *)
(* Invoice table, the webhook ledger (WebhookEvent), the payment gateway   *)
(* as seen through WompiService, and the request handlers of               *)
(* subscriptions/views.py that read and write them.                        *)
(*                                                                         *)
(* Conventions.  Time is counted in days.  A Subscription is identified    *)
(* with its company (OneToOneField), and the company's user and e-mail     *)
(* carry the same number.  A handler that loads a Subscription keeps a     *)
(* private copy (the ORM object) and save() writes every field of that     *)
(* copy back, as Django's Model.save() does.  The gateway status DECLINED  *)
(* stands for DECLINED, ERROR and VOIDED, which every handler treats       *)
(* alike.  An event id is the id of the transaction it reports.            *)
(***************************************************************************)
EXTENDS Integers, Sequences, FiniteSets, TLC

\* ------------------------------------------------------------------ bounds
MaxDeliveries == 3
MaxDay == 1
MaxForged == 1
MaxFaults == 1
MaxSource == 2

\* ------------------------------------------------------- program constants
MonthlyDays == 30
YearlyDays == 365
PollAttemptsCheckout == 15
PollAttemptsRetry == 3

\* --------------------------------------------------------------- universes
SubIds == {1, 2}
TxIds == {1, 2}
Handlers == {"w1", "w2"}
Plans == {1, 2}
NoSub == [status |-> "none"]
NoTx == [status |-> "none"]

VARIABLES
    subs,       \* Subscription table: company -> row, or NoSub
    invoices,   \* Invoice table: set of rows [pk, tx, sub, status, amount]
    ledger,     \* WebhookEvent table: set of rows [pk, event, status, sub, inv]
    gw,         \* gateway: transaction id -> transaction, or NoTx
    hs,         \* webhook handlers: position and locals of each worker
    rq,         \* the interactive / scheduler request in flight
    peer,       \* a checkout served by another web worker at the same time
    now,        \* current day
    age,        \* company -> 0 (row created < 5 min ago), 1 (< 24 h), 2 (older)
    deliveries, \* number of webhook deliveries received so far
    forged,     \* number of deliveries with an invalid signature so far
    faults,     \* number of database faults injected so far
    resp,       \* history: answers given to deliveries [n, ev, valid, seen, code]
    applied,    \* history: event -> number of deliveries that changed a Subscription
    ext,        \* history: transaction -> number of period extensions made for it
    notes,      \* history: reactivation notifications [sub, ok, path, tx]
    first,      \* history: transaction -> who wrote for it first: "sync", "webhook"
    trial,      \* Trial table: company -> Trial.status, or "none"
    current_uses, \* DiscountCampaign.current_uses of the one active campaign
    tokens,     \* SSOToken table: set of rows [token, request_id, account, used, expires_at]
    sh,         \* SSO requests in flight: browser -> position and locals
    sessions,   \* session store: browser -> [user, last_activity]
    logins,     \* history: token -> number of sessions started with it
    sresp,      \* history: the last answer of the SSO endpoints [to, op, arg, code, err]
    clock       \* current time in seconds

vars == <<subs, invoices, ledger, gw, hs, rq, peer, now, age, deliveries,
          forged, faults, resp, applied, ext, notes, first, trial, current_uses,
          tokens, sh, sessions, logins, sresp, clock>>

\* The state of billing and the state of the login portal.
billing == <<subs, invoices, ledger, gw, hs, rq, peer, now, age, deliveries,
             forged, faults, resp, applied, ext, notes, first, trial, current_uses>>

portal == <<tokens, sh, sessions, logins, sresp, clock>>

\* What a step of a webhook worker that only moves on leaves alone.
billingTables == <<subs, invoices, ledger, gw, rq, now, age, deliveries, forged, faults,
                   applied, ext, notes, first, trial, current_uses>>

\* ------------------------------------------------------------ model: data

\* Plan.price_monthly / Plan.price_yearly of the two catalogue plans.
PriceMonthly(p) == IF p = 1 THEN 50000 ELSE 90000

PriceYearly(p) == IF p = 1 THEN 500000 ELSE 900000

\* The amount charged for a renewal of subscription row s.
PlanAmount(s) == IF s.cycle = "yearly" THEN PriceYearly(s.plan) ELSE PriceMonthly(s.plan)

\* timedelta(days=365) for yearly, timedelta(days=30) otherwise.
CycleDays(cycle) == IF cycle = "yearly" THEN YearlyDays ELSE MonthlyDays

\* new_period_start = current_period_end; new_period_end = new_period_start + cycle.
ExtendPeriod(s) == [s EXCEPT !.pstart = s.pend, !.pend = s.pend + CycleDays(s.cycle)]

\* Rows of a table matching a key.
InvoicesOf(t) == {i \in invoices : i.tx = t}

LedgerOf(e) == {r \in ledger : r.event = e}

\* An Invoice table that accepts any insert.
AnyInvoiceInsert(t) == TRUE

\* Invoice.objects.create: wompi_transaction_id is unique, so the insert
\* raises IntegrityError when a row with that transaction id exists.
CanInsertInvoice(t) == InvoicesOf(t) = {}

NewInvoice(t, s, st, amt) ==
    [pk |-> Cardinality(invoices) + 1, tx |-> t, sub |-> s, status |-> st, amount |-> amt]

\* A WebhookEvent table that accepts any insert.
AnyLedgerInsert(e) == TRUE

\* WebhookEvent.objects.create: event_id is unique.
CanInsertLedger(e) == LedgerOf(e) = {}

NewLedgerRow(e, st) ==
    [pk |-> Cardinality(ledger) + 1, event |-> e, status |-> st, sub |-> 0, inv |-> 0]

\* WebhookEvent.objects.filter(event_id=...).first(): the status seen, or "none".
LedgerStatus(e) == IF LedgerOf(e) = {} THEN "none" ELSE (CHOOSE r \in LedgerOf(e) : TRUE).status

\* A status change that is never saved.
LedgerUnsaved(pk, st) == ledger

\* The ledger after the row of primary key pk is saved with status st.
LedgerSet(pk, st) == {IF r.pk = pk THEN [r EXCEPT !.status = st] ELSE r : r \in ledger}

Final(t) == gw[t].status \in {"APPROVED", "DECLINED"}

Existing == {s \in SubIds : subs[s] # NoSub}

\* ------------------------------------------- model: reconciliation lookups

\* Strategy 1: Subscription.objects.filter(wompi_subscription_id=tx).first()
ByTransaction(t) == {s \in Existing : subs[s].wsid = t}

\* Reference LYVIO-REC-<id>-.. / LYVIO-RETRY-<id>-..: Subscription with that id.
ByReference(t) ==
    IF gw[t].kind \in {"REC", "RETRY"} THEN {s \in Existing : s = gw[t].ref} ELSE {}

\* Strategy 2: payment_source_id of the payload against Subscription.payment_source_id.
ByPaymentSource(t) ==
    IF gw[t].psrc # 0 THEN {s \in Existing : subs[s].psrc = gw[t].psrc} ELSE {}

\* Strategy 3A: customer e-mail among Subscriptions created in the last 5 minutes.
ByEmail(t) == {s \in Existing : s = gw[t].email /\ age[s] = 0}

\* Strategy 3B: LYVIO-FIRST-<plan>-<user>-..: the user's company's Subscription
\* with that plan, created in the last 24 hours.
ByFirstReference(t) ==
    IF gw[t].kind = "FIRST"
    THEN {s \in Existing : s = gw[t].ref /\ subs[s].plan = gw[t].plan /\ age[s] <= 1}
    ELSE {}

\* The branch of wompi_webhook that handles transaction t, and the candidates.
MatchBranch(t) ==
    IF ByTransaction(t) # {} \/ ByReference(t) # {} THEN "main"
    ELSE IF ByPaymentSource(t) # {} THEN "psrc"
    ELSE IF ByEmail(t) # {} THEN "email"
    ELSE IF ByFirstReference(t) # {} THEN "first"
    ELSE "nomatch"

\* A lookup that trusts the reference before the transaction id.
ReferenceFirst(t) ==
    IF ByReference(t) # {} THEN ByReference(t)
    ELSE IF ByFirstReference(t) # {} THEN ByFirstReference(t)
    ELSE ByTransaction(t)

MatchSet(t) ==
    IF ByTransaction(t) # {} THEN ByTransaction(t)
    ELSE IF ByReference(t) # {} THEN ByReference(t)
    ELSE IF ByPaymentSource(t) # {} THEN ByPaymentSource(t)
    ELSE IF ByEmail(t) # {} THEN ByEmail(t)
    ELSE ByFirstReference(t)

\* .first() under Meta.ordering = ['-created_at']: a most recently created candidate.
MostRecent(S) == {s \in S : \A o \in S : age[s] <= age[o]}

\* ------------------------------------------------- model: webhook handler

IdleHandler ==
    [pc |-> "idle", n |-> 0, ev |-> 0, seen |-> "none", wid |-> 0, sid |-> 0,
     obj |-> NoSub, branch |-> "none", mut |-> FALSE, exc |-> FALSE]

\* The answer given to the n-th delivery, kept as history.
Answer(n, e, valid, seen, code) ==
    [n |-> n, ev |-> e, valid |-> valid, seen |-> seen, code |-> code]

\* A delivery by handler h has changed a Subscription: counted once per delivery.
Touch(h) == IF hs[h].mut THEN applied ELSE [applied EXCEPT ![hs[h].ev] = @ + 1]

\* wompi_webhook, signature check failed: the attempt is recorded with status
\* invalid_signature and answered 403.  The row is inserted under the event id
\* of the body, so the insert raises IntegrityError when that id is in the
\* ledger already; the outer except then answers 500.
WhInvalidSignature(h, e) ==
    /\ hs[h].pc = "idle"
    /\ deliveries < MaxDeliveries
    /\ forged < MaxForged
    /\ deliveries' = deliveries + 1
    /\ forged' = forged + 1
    /\ IF CanInsertLedger(e)
       THEN /\ ledger' = ledger \cup {NewLedgerRow(e, "invalid_signature")}
            /\ resp' = resp \cup {Answer(deliveries + 1, e, FALSE, LedgerStatus(e), 403)}
       ELSE /\ ledger' = ledger
            /\ resp' = resp \cup {Answer(deliveries + 1, e, FALSE, LedgerStatus(e), 500)}
    /\ UNCHANGED <<peer, portal, trial, current_uses, first, subs, invoices, gw, hs, rq, now, age, faults, applied, ext, notes>>

\* A ledger that never reports a delivery in flight.
NeverInFlight(seen) == FALSE

\* existing_webhook.status == 'processing': another worker holds the event.
InFlight(seen) == seen = "processing"

\* wompi_webhook, valid signature, up to the ledger lookup and the branches
\* that answer at once: processed/duplicate -> mark_as_duplicate, 200;
\* processing -> 200.
WhReceive(h, e) ==
    /\ hs[h].pc = "idle"
    /\ deliveries < MaxDeliveries
    /\ Final(e)
    /\ deliveries' = deliveries + 1
    /\ LET seen == LedgerStatus(e)
           row == CHOOSE r \in LedgerOf(e) : TRUE
       IN  IF seen \in {"processed", "duplicate"}
           THEN /\ ledger' = LedgerSet(row.pk, "duplicate")
                /\ resp' = resp \cup {Answer(deliveries + 1, e, TRUE, seen, 200)}
                /\ hs' = hs
           ELSE IF InFlight(seen)
           THEN /\ resp' = resp \cup {Answer(deliveries + 1, e, TRUE, seen, 200)}
                /\ UNCHANGED <<peer, portal, trial, current_uses, ledger, hs>>
           ELSE /\ hs' = [hs EXCEPT ![h] = [IdleHandler EXCEPT
                              !.pc = IF seen \in {"none", "failed"} THEN "claim" ELSE "find",
                              !.n = deliveries + 1, !.ev = e, !.seen = seen]]
                /\ UNCHANGED <<peer, portal, trial, current_uses, ledger, resp>>
    /\ UNCHANGED <<peer, portal, trial, current_uses, first, subs, invoices, gw, rq, now, age, forged, faults, applied, ext, notes>>

\* failed -> mark_as_processing; not found -> WebhookEvent.objects.create with
\* status processing.  When another delivery inserted the row in between, the
\* insert raises IntegrityError: the outer except cannot mark a row it never
\* bound and answers 500.
WhClaim(h) ==
    /\ hs[h].pc = "claim"
    /\ LET e == hs[h].ev
       IN  IF hs[h].seen = "failed"
           THEN LET row == CHOOSE r \in LedgerOf(e) : TRUE
                IN  /\ ledger' = LedgerSet(row.pk, "processing")
                    /\ hs' = [hs EXCEPT ![h].pc = "find", ![h].wid = row.pk]
                    /\ resp' = resp
           ELSE IF CanInsertLedger(e)
           THEN /\ ledger' = ledger \cup {NewLedgerRow(e, "processing")}
                /\ hs' = [hs EXCEPT ![h].pc = "find", ![h].wid = Cardinality(ledger) + 1]
                /\ resp' = resp
           ELSE /\ ledger' = ledger
                /\ hs' = [hs EXCEPT ![h] = IdleHandler]
                /\ resp' = resp \cup {Answer(hs[h].n, e, TRUE, hs[h].seen, 500)}
    /\ UNCHANGED <<peer, portal, trial, current_uses, first, subs, invoices, gw, rq, now, age, deliveries, forged, faults,
                   applied, ext, notes>>

\* A handler that reconciles whatever final status the payload carries.
AnyOutcome(t) == TRUE

\* if status == 'APPROVED': the only status whose branch looks for a
\* Subscription; DECLINED and VOIDED are logged, ERROR has no branch.
Approved(t) == gw[t].status = "APPROVED"

\* The lookups of the APPROVED branch, in the order the code tries them.  A
\* DECLINED event, and an APPROVED one that matches nothing, go straight to
\* step 4 (mark as processed).
WhFind(h) ==
    /\ hs[h].pc = "find"
    /\ LET t == hs[h].ev
       IN  IF ~Approved(t) \/ MatchBranch(t) = "nomatch"
           THEN hs' = [hs EXCEPT ![h].pc = "finish"]
           ELSE \E s \in MostRecent(MatchSet(t)) :
                    hs' = [hs EXCEPT ![h].pc = "flip", ![h].sid = s, ![h].obj = subs[s],
                                     ![h].branch = MatchBranch(t)]
    /\ UNCHANGED <<peer, portal, trial, current_uses, first, subs, invoices, ledger, gw, rq, now, age, deliveries, forged, faults,
                   resp, applied, ext, notes>>

\* The object after "if subscription.status == 'pending': status = 'active'";
\* the e-mail and first-reference branches also store the transaction id.
\* The first writer of a transaction's outcome is remembered.
Mark(t, who) == [first EXCEPT ![t] = IF @ = "none" THEN who ELSE @]

Flipped(o, t, branch) ==
    LET a == IF o.status = "pending" THEN [o EXCEPT !.status = "active"] ELSE o
    IN  IF branch \in {"email", "first"} THEN [a EXCEPT !.wsid = t] ELSE a

\* Whether that branch calls subscription.save() at this point.
FlipSaves(o, branch) == o.status = "pending" \/ branch \in {"email", "first"}

\* Activation of a pending Subscription, then the check for an existing Invoice
\* and Invoice.objects.create.  An existing Invoice skips the rest; an
\* IntegrityError on the insert is swallowed by the inner except.
WhFlip(h) ==
    /\ hs[h].pc = "flip"
    /\ LET t == hs[h].ev
           o == Flipped(hs[h].obj, t, hs[h].branch)
           flips == hs[h].obj.status = "pending"
       IN  /\ subs' = IF FlipSaves(hs[h].obj, hs[h].branch)
                      THEN [subs EXCEPT ![hs[h].sid] = o] ELSE subs
           /\ applied' = IF flips THEN Touch(h) ELSE applied
           /\ first' = IF FlipSaves(hs[h].obj, hs[h].branch) THEN Mark(t, "webhook") ELSE first
           /\ hs' = [hs EXCEPT ![h].obj = o, ![h].mut = @ \/ flips,
                               ![h].pc = IF InvoicesOf(t) # {} THEN "finish" ELSE "invoice"]
    /\ UNCHANGED <<peer, portal, trial, current_uses, invoices, ledger, gw, rq, now, age, deliveries, forged, faults,
                   resp, ext, notes>>

\* Every reconciled charge extending the period.
ExtendsAlways(kind, branch) == TRUE

\* Which references make a branch extend the period after creating the Invoice.
Extends(kind, branch) == kind = "REC" \/ (kind = "RETRY" /\ branch = "main")

WhInvoice(h) ==
    /\ hs[h].pc = "invoice"
    /\ LET t == hs[h].ev
       IN  IF CanInsertInvoice(t)
           THEN /\ invoices' = invoices \cup {NewInvoice(t, hs[h].sid, "paid", gw[t].amount)}
                /\ first' = Mark(t, "webhook")
                /\ hs' = [hs EXCEPT ![h].pc = IF Extends(gw[t].kind, hs[h].branch)
                                               THEN "extend" ELSE "finish"]
           ELSE /\ invoices' = invoices
                /\ first' = first
                /\ hs' = [hs EXCEPT ![h].pc = "finish"]
    /\ UNCHANGED <<peer, portal, trial, current_uses, subs, ledger, gw, rq, now, age, deliveries, forged, faults,
                   resp, applied, ext, notes>>

\* The object a retry reference leaves before the extension: a suspended
\* Subscription is set active and saved, then the collaborator is notified.
Reactivated(o) == IF o.status = "suspended" THEN [o EXCEPT !.status = "active"] ELSE o

\* A call of notify_account_reactivation and its result, kept as history.
Note(s, ok, path, t) == [sub |-> s, ok |-> ok, path |-> path, tx |-> t]

\* Period extension for a recurring or retry reference.  For a retry of a
\* suspended Subscription the status is saved as active first and
\* notify_account_reactivation is called afterwards, its result unused.
WhExtend(h) ==
    /\ hs[h].pc = "extend"
    /\ \E ok \in BOOLEAN :
        LET t == hs[h].ev
            retry == gw[t].kind = "RETRY"
            wasSuspended == retry /\ hs[h].obj.status = "suspended"
            o == ExtendPeriod(IF retry THEN Reactivated(hs[h].obj) ELSE hs[h].obj)
        IN  /\ subs' = [subs EXCEPT ![hs[h].sid] = o]
            /\ notes' = IF wasSuspended
                        THEN notes \cup {Note(hs[h].sid, ok, "webhook", t)}
                        ELSE notes
            /\ (~wasSuspended => ok)
            /\ ext' = [ext EXCEPT ![t] = @ + 1]
            /\ applied' = Touch(h)
            /\ first' = Mark(t, "webhook")
            /\ hs' = [hs EXCEPT ![h].obj = o, ![h].mut = TRUE, ![h].pc = "finish"]
    /\ UNCHANGED <<peer, portal, trial, current_uses, invoices, ledger, gw, rq, now, age, deliveries, forged, faults, resp>>

\* Step 4: the Subscription and Invoice to reference are looked up again
\* (by transaction id, then by a LYVIO-REC- / LYVIO-RENEW- reference) and the
\* row is marked processed and answered 200.  A handler that bound no row
\* (the ledger status was neither processed, duplicate, processing nor failed)
\* raises here and answers 500.  A database fault on the update is answered
\* 500 after mark_as_failed.
ProcessedSubscription(t) ==
    IF ByTransaction(t) # {} THEN ByTransaction(t)
    ELSE IF gw[t].kind = "REC" THEN {s \in Existing : s = gw[t].ref}
    ELSE {}

WhFinish(h) ==
    /\ hs[h].pc = "finish"
    /\ LET e == hs[h].ev
           approved == gw[e].status = "APPROVED"
           ps == IF approved THEN ProcessedSubscription(e) ELSE {}
           pi == IF approved THEN InvoicesOf(e) ELSE {}
       IN  /\ IF hs[h].wid = 0
              THEN /\ ledger' = ledger
                   /\ resp' = resp \cup {Answer(hs[h].n, e, TRUE, hs[h].seen, 500)}
              ELSE /\ \E s \in (IF ps = {} THEN {0} ELSE MostRecent(ps)) :
                        ledger' = {IF r.pk = hs[h].wid
                                   THEN [r EXCEPT !.status = "processed",
                                                  !.sub = IF s # 0 THEN s ELSE @,
                                                  !.inv = IF pi # {}
                                                          THEN (CHOOSE i \in pi : TRUE).pk
                                                          ELSE @]
                                   ELSE r : r \in ledger}
                   /\ resp' = resp \cup {Answer(hs[h].n, e, TRUE, hs[h].seen, 200)}
           /\ hs' = [hs EXCEPT ![h] = IdleHandler]
    /\ UNCHANGED <<peer, portal, trial, current_uses, first, subs, invoices, gw, rq, now, age, deliveries, forged, faults,
                   applied, ext, notes>>

\* An exception outside the inner try (a database error while the outcome is
\* recorded): the outer except marks the row failed and answers 500.
WhFault(h) ==
    /\ hs[h].pc = "finish"
    /\ hs[h].wid # 0
    /\ faults < MaxFaults
    /\ faults' = faults + 1
    /\ ledger' = LedgerSet(hs[h].wid, "failed")
    /\ resp' = resp \cup {Answer(hs[h].n, hs[h].ev, TRUE, hs[h].seen, 500)}
    /\ hs' = [hs EXCEPT ![h] = IdleHandler]
    /\ UNCHANGED <<peer, portal, trial, current_uses, first, subs, invoices, gw, rq, now, age, deliveries, forged, applied, ext, notes>>

\* An exception inside the APPROVED branch (a lookup, the status flip, the
\* Invoice insert or the period extension fails): the inner except logs it
\* and the handler goes on to step 4 with what was written so far.
WhRaise(h) ==
    /\ hs[h].pc \in {"find", "flip", "invoice", "extend"}
    /\ gw[hs[h].ev].status = "APPROVED"
    /\ ~hs[h].exc
    /\ hs' = [hs EXCEPT ![h].pc = "finish", ![h].exc = TRUE]
    /\ UNCHANGED <<peer, portal, billingTables, resp>>

\* The steps of one worker on validly signed deliveries.
Deliver(h) ==
    \/ \E e \in TxIds : WhReceive(h, e)
    \/ WhClaim(h)
    \/ WhFind(h)
    \/ WhFlip(h)
    \/ WhInvoice(h)
    \/ WhExtend(h)
    \/ WhFinish(h)

Webhook ==
    \E h \in Handlers :
        \/ Deliver(h)
        \/ WhFault(h)
        \/ \E e \in TxIds : WhInvalidSignature(h, e)

\* ------------------------------------------------------ model: a stored row

\* A stored Subscription.
Sub(st, cycle, pstart, pend, psrc, wsid, plan) ==
    [status |-> st, cycle |-> cycle, pstart |-> pstart, pend |-> pend,
     cancelled |-> FALSE, psrc |-> psrc, wsid |-> wsid, plan |-> plan]

\* No interactive or scheduler request is in flight.
IdleRq == [kind |-> "none", pc |-> "idle"]

\* ------------------------------------------------------ model: the gateway

\* Transaction ids the gateway has not given out yet.
FreeTx == {t \in TxIds : gw[t] = NoTx}

\* The id the gateway gives the next transaction.
NextTx == CHOOSE t \in FreeTx : \A o \in FreeTx : t <= o

\* A transaction as the gateway reports it (data.transaction of a webhook, the
\* answer of a create call): status, the reference's prefix and the id it
\* embeds (for FIRST the user, with the plan), payment_source_id,
\* customer_email and amount; with them the status the create call answered
\* and the day of the charge (created_at).
Tx(st, kind, ref, plan, psrc, email, amount) ==
    [status |-> st, kind |-> kind, ref |-> ref, plan |-> plan, psrc |-> psrc,
     email |-> email, amount |-> amount, answer |-> st, day |-> now]

\* The bank settles a pending transaction.
GwResolve(t) ==
    /\ gw[t].status = "PENDING"
    /\ \E st \in {"APPROVED", "DECLINED"} : gw' = [gw EXCEPT ![t].status = st]
    /\ UNCHANGED <<peer, portal, trial, current_uses, first, subs, invoices, ledger, hs, rq, now, age, deliveries, forged, faults,
                   resp, applied, ext, notes>>

\* The external orchestrator charges an active Subscription with the payload of
\* api_subscription_charge_payload: reference LYVIO-REC-<subscription id>-<ts>.
ExternalCharge(s) ==
    /\ subs[s] # NoSub
    /\ subs[s].status = "active"
    /\ FreeTx # {}
    /\ gw' = [gw EXCEPT ![NextTx] =
                 Tx("PENDING", "REC", s, subs[s].plan, subs[s].psrc, s, PlanAmount(subs[s]))]
    /\ UNCHANGED <<peer, portal, trial, current_uses, first, subs, invoices, ledger, hs, rq, now, age, deliveries, forged, faults,
                   resp, applied, ext, notes>>

\* Five minutes pass: no row counts as created in the last five minutes.
Minutes ==
    /\ \E s \in SubIds : age[s] = 0
    /\ age' = [s \in SubIds |-> IF age[s] = 0 THEN 1 ELSE age[s]]
    /\ UNCHANGED <<peer, portal, trial, current_uses, first, subs, invoices, ledger, gw, hs, rq, now, deliveries, forged, faults,
                   resp, applied, ext, notes>>

\* A day passes.  Days are counted between the interactive and scheduler
\* requests, which last seconds; webhook deliveries may straddle them.
Tick ==
    /\ now < MaxDay
    /\ rq = IdleRq
    /\ now' = now + 1
    /\ age' = [s \in SubIds |-> 2]
    /\ UNCHANGED <<peer, portal, trial, current_uses, first, subs, invoices, ledger, gw, hs, rq, deliveries, forged, faults,
                   resp, applied, ext, notes>>

\* ------------------------------------------------- model: retry_payment

\* "Reactivar y extender periodo": status active, period extended from the
\* object's current_period_end.
RenewedObject(o) == ExtendPeriod([o EXCEPT !.status = "active"])

\* retry_payment up to the answer of create_transaction.  It serves a company
\* whose Subscription is suspended and has a payment source; the reference is
\* LYVIO-RETRY-<subscription id>-<ts>.  A declined charge changes nothing.
RpCharge(c) ==
    /\ rq = IdleRq
    /\ subs[c] # NoSub
    /\ subs[c].status = "suspended"
    /\ subs[c].psrc # 0
    /\ FreeTx # {}
    /\ \E st \in {"APPROVED", "PENDING", "DECLINED"} :
        /\ gw' = [gw EXCEPT ![NextTx] =
                     Tx(st, "RETRY", c, subs[c].plan, subs[c].psrc, c, PlanAmount(subs[c]))]
        /\ rq' = IF st = "DECLINED" THEN IdleRq
                 ELSE [kind |-> "retry", pc |-> IF st = "APPROVED" THEN "apply" ELSE "poll",
                       sid |-> c, obj |-> subs[c], tx |-> NextTx, attempt |-> 0]
    /\ UNCHANGED <<peer, portal, trial, current_uses, first, subs, invoices, ledger, hs, now, age, deliveries, forged, faults,
                   resp, applied, ext, notes>>

\* The APPROVED branch: the loaded object is set active, extended and saved,
\* then notify_account_reactivation is called and its result dropped.
RpApply ==
    /\ rq.kind = "retry"
    /\ rq.pc = "apply"
    /\ \E ok \in BOOLEAN :
        /\ subs' = [subs EXCEPT ![rq.sid] = RenewedObject(rq.obj)]
        /\ ext' = [ext EXCEPT ![rq.tx] = @ + 1]
        /\ notes' = notes \cup {Note(rq.sid, ok, "retry", rq.tx)}
    /\ first' = Mark(rq.tx, "sync")
    /\ rq' = IdleRq
    /\ UNCHANGED <<peer, portal, trial, current_uses, invoices, ledger, gw, hs, now, age, deliveries, forged, faults,
                   resp, applied>>

\* One round of the polling loop (max_attempts = 3): get_transaction answers
\* the current status, or nothing on a request error.
RpPoll ==
    /\ rq.kind = "retry"
    /\ rq.pc = "poll"
    /\ \E seen \in {gw[rq.tx].status, "PENDING"}, ok \in BOOLEAN :
        IF seen = "APPROVED"
        THEN /\ subs' = [subs EXCEPT ![rq.sid] = RenewedObject(rq.obj)]
             /\ ext' = [ext EXCEPT ![rq.tx] = @ + 1]
             /\ notes' = notes \cup {Note(rq.sid, ok, "retry", rq.tx)}
             /\ first' = Mark(rq.tx, "sync")
             /\ rq' = IdleRq
        ELSE /\ ok
             /\ rq' = IF seen = "DECLINED" \/ rq.attempt + 1 = PollAttemptsRetry
                      THEN IdleRq ELSE [rq EXCEPT !.attempt = @ + 1]
             /\ UNCHANGED <<peer, portal, trial, current_uses, subs, ext, notes, first>>
    /\ UNCHANGED <<peer, portal, trial, current_uses, invoices, ledger, gw, hs, now, age, deliveries, forged, faults,
                   resp, applied>>

\* ----------------------------------------- model: update_payment_method

\* The view loads the company's Subscription with status active or suspended.
UpmRead(c) ==
    /\ rq = IdleRq
    /\ subs[c] # NoSub
    /\ subs[c].status \in {"active", "suspended"}
    /\ subs[c].psrc < MaxSource
    /\ rq' = [kind |-> "upm", pc |-> "save", sid |-> c, obj |-> subs[c], tx |-> 0,
              attempt |-> 0]
    /\ UNCHANGED <<peer, portal, trial, current_uses, first, subs, invoices, ledger, gw, hs, now, age, deliveries, forged, faults,
                   resp, applied, ext, notes>>

\* After tokenising the card and creating the payment source the loaded object
\* is saved with the new payment source.  For a suspended Subscription the
\* charge LYVIO-REACTIVATION-<subscription id>-<ts> follows at once.
UpmSave ==
    /\ rq.kind = "upm"
    /\ rq.pc = "save"
    /\ LET o == [rq.obj EXCEPT !.psrc = @ + 1]
       IN  /\ subs' = [subs EXCEPT ![rq.sid] = o]
           /\ IF o.status = "suspended" /\ FreeTx # {}
              THEN \E st \in {"APPROVED", "PENDING", "DECLINED"} :
                    /\ gw' = [gw EXCEPT ![NextTx] =
                                Tx(st, "REACTIVATION", rq.sid, o.plan, o.psrc, rq.sid,
                                   PlanAmount(o))]
                    /\ rq' = IF st = "DECLINED" THEN IdleRq
                             ELSE [rq EXCEPT !.obj = o, !.tx = NextTx,
                                             !.pc = IF st = "APPROVED" THEN "apply" ELSE "poll"]
              ELSE /\ gw' = gw
                   /\ rq' = IdleRq
    /\ UNCHANGED <<peer, portal, trial, current_uses, first, invoices, ledger, hs, now, age, deliveries, forged, faults,
                   resp, applied, ext, notes>>

UpmApply ==
    /\ rq.kind = "upm"
    /\ rq.pc = "apply"
    /\ \E ok \in BOOLEAN :
        /\ subs' = [subs EXCEPT ![rq.sid] = RenewedObject(rq.obj)]
        /\ ext' = [ext EXCEPT ![rq.tx] = @ + 1]
        /\ notes' = notes \cup {Note(rq.sid, ok, "upm", rq.tx)}
    /\ first' = Mark(rq.tx, "sync")
    /\ rq' = IdleRq
    /\ UNCHANGED <<peer, portal, trial, current_uses, invoices, ledger, gw, hs, now, age, deliveries, forged, faults,
                   resp, applied>>

UpmPoll ==
    /\ rq.kind = "upm"
    /\ rq.pc = "poll"
    /\ \E seen \in {gw[rq.tx].status, "PENDING"}, ok \in BOOLEAN :
        IF seen = "APPROVED"
        THEN /\ subs' = [subs EXCEPT ![rq.sid] = RenewedObject(rq.obj)]
             /\ ext' = [ext EXCEPT ![rq.tx] = @ + 1]
             /\ notes' = notes \cup {Note(rq.sid, ok, "upm", rq.tx)}
             /\ first' = Mark(rq.tx, "sync")
             /\ rq' = IdleRq
        ELSE /\ ok
             /\ rq' = IF seen = "DECLINED" \/ rq.attempt + 1 = PollAttemptsRetry
                      THEN IdleRq ELSE [rq EXCEPT !.attempt = @ + 1]
             /\ UNCHANGED <<peer, portal, trial, current_uses, subs, ext, notes, first>>
    /\ UNCHANGED <<peer, portal, trial, current_uses, invoices, ledger, gw, hs, now, age, deliveries, forged, faults,
                   resp, applied>>

\* ------------------------------------------- model: billing_upgrade_plan

\* The amount of an upgrade: the yearly price, or for a monthly cycle the
\* price difference prorated over the days left in the month (frac of 2
\* halves), or the full monthly price when the Subscription is not active or
\* the new plan is not dearer.
UpgradeAmount(o, p, cycle, frac) ==
    IF cycle = "yearly" THEN PriceYearly(p)
    ELSE IF o.status # "active" \/ PriceMonthly(p) - PriceMonthly(o.plan) <= 0
    THEN PriceMonthly(p)
    ELSE ((PriceMonthly(p) - PriceMonthly(o.plan)) * frac) \div 2

\* billing_upgrade_plan up to the answer of create_transaction (reference
\* upgrade-<company>-<uuid>).  Only APPROVED and PENDING go on.
UpgCharge(c, p, cycle) ==
    /\ rq = IdleRq
    /\ subs[c] # NoSub
    /\ subs[c].psrc # 0
    /\ FreeTx # {}
    /\ \E st \in {"APPROVED", "PENDING", "DECLINED"}, frac \in {1, 2} :
        LET amount == UpgradeAmount(subs[c], p, cycle, frac)
        IN  /\ amount > 0
            /\ gw' = [gw EXCEPT ![NextTx] = Tx(st, "UPGRADE", c, p, subs[c].psrc, c, amount)]
            /\ rq' = IF st = "DECLINED" THEN IdleRq
                     ELSE [kind |-> "upgrade", pc |-> "save", sid |-> c, obj |-> subs[c],
                           tx |-> NextTx, st |-> st, plan |-> p, cycle |-> cycle,
                           amount |-> amount]
    /\ UNCHANGED <<peer, portal, trial, current_uses, first, subs, invoices, ledger, hs, now, age, deliveries, forged, faults,
                   resp, applied, ext, notes>>

\* notify_plan_update must succeed; then the loaded object is saved with the
\* new plan and cycle and the Invoice of the transaction is looked up.
UpgSave ==
    /\ rq.kind = "upgrade"
    /\ rq.pc = "save"
    /\ \E ok \in BOOLEAN :
        IF ok
        THEN LET o == [rq.obj EXCEPT !.plan = rq.plan, !.cycle = rq.cycle]
             IN  /\ subs' = [subs EXCEPT ![rq.sid] = o]
                 /\ first' = Mark(rq.tx, "sync")
                 /\ rq' = IF InvoicesOf(rq.tx) # {} THEN IdleRq
                          ELSE [rq EXCEPT !.obj = o, !.pc = "invoice"]
        ELSE /\ subs' = subs
             /\ first' = first
             /\ rq' = IdleRq
    /\ UNCHANGED <<peer, portal, trial, current_uses, invoices, ledger, gw, hs, now, age, deliveries, forged, faults,
                   resp, applied, ext, notes>>

\* Invoice.objects.create: paid for an APPROVED answer, pending otherwise.
\* An IntegrityError is caught by the view's except.
UpgInvoice ==
    /\ rq.kind = "upgrade"
    /\ rq.pc = "invoice"
    /\ invoices' = IF CanInsertInvoice(rq.tx)
                   THEN invoices \cup {NewInvoice(rq.tx, rq.sid,
                                          IF rq.st = "APPROVED" THEN "paid" ELSE "pending",
                                          rq.amount)}
                   ELSE invoices
    /\ rq' = IdleRq
    /\ UNCHANGED <<peer, portal, trial, current_uses, first, subs, ledger, gw, hs, now, age, deliveries, forged, faults,
                   resp, applied, ext, notes>>

\* ------------------------------------ model: renew_expired_subscription

\* The view calls create_transaction_with_token(transaction_data) with one
\* argument where the method takes five: the call raises TypeError, which the
\* view's except turns into an error message.  No charge is made and nothing
\* is written.
RenewAttempt(c) ==
    /\ rq = IdleRq
    /\ subs[c] # NoSub
    /\ subs[c].status \in {"cancelled", "suspended", "past_due"}
    /\ subs[c].psrc # 0
    /\ UNCHANGED vars

\* --------------------------------------- model: process_recurring_payments

\* payment_source_id__isnull=False: the column is a CharField without
\* null=True, so its empty value is the empty string (0 here), never NULL.
NotNull(v) == v \in Nat

\* The Subscriptions the endpoint selects: without subscription_ids the
\* active ones with a non-null payment source whose period has ended; with
\* subscription_ids the listed active ones with a non-null payment source.
Selected(ids) ==
    {s \in Existing :
        /\ subs[s].status = "active"
        /\ NotNull(subs[s].psrc)
        /\ IF ids = {} THEN subs[s].pend <= now ELSE s \in ids}

\* The rows of a queryset in the order the loop visits them.
RECURSIVE Ascending(_)
Ascending(S) ==
    IF S = {} THEN <<>>
    ELSE LET m == CHOOSE x \in S : \A y \in S : x <= y
         IN  <<m>> \o Ascending(S \ {m})

\* A loop that charges whatever the request says.
NeverSimulates(dry) == FALSE

\* Whether the loop skips the charge of an item.
Simulates(dry) == dry

\* One entry of the response's results.
Result(s, amount, status, t) == [sub |-> s, amount |-> amount, status |-> status, tx |-> t]

\* The request is parsed and the queryset evaluated: every selected row is
\* loaded before the first charge.
SchedSelect(ids, dry) ==
    /\ rq = IdleRq
    /\ LET q == Ascending(Selected(ids))
       IN  rq' = [kind |-> "sched", pc |-> "item", sel |-> Selected(ids), dry |-> dry,
                  queue |-> [i \in 1..Len(q) |-> [sid |-> q[i], obj |-> subs[q[i]]]],
                  results |-> <<>>, tx |-> 0, st |-> "none"]
    /\ UNCHANGED <<peer, portal, trial, current_uses, subs, invoices, ledger, gw, hs, now, age, deliveries, forged, faults,
                   resp, applied, ext, notes, first>>

\* The next item of the loop up to the answer of create_recurring_transaction
\* (reference RECURRING-<subscription id>-<ts>).  A dry run records the
\* amount only.  An exception of the call is recorded as error.
SchedCharge ==
    /\ rq.kind = "sched"
    /\ rq.pc = "item"
    /\ rq.queue # <<>>
    /\ LET s == Head(rq.queue).sid
           o == Head(rq.queue).obj
       IN  IF Simulates(rq.dry)
           THEN /\ rq' = [rq EXCEPT !.queue = Tail(@),
                                    !.results = Append(@, Result(s, PlanAmount(o), "simulated", 0))]
                /\ gw' = gw
           ELSE \/ /\ rq' = [rq EXCEPT !.queue = Tail(@),
                                       !.results = Append(@, Result(s, PlanAmount(o), "error", 0))]
                   /\ gw' = gw
                \/ /\ FreeTx # {}
                   /\ \E st \in {"APPROVED", "PENDING", "DECLINED"} :
                        /\ gw' = [gw EXCEPT ![NextTx] =
                                     Tx(st, "RECURRING", s, o.plan, o.psrc, s, PlanAmount(o))]
                        /\ rq' = [rq EXCEPT !.pc = "save", !.tx = NextTx, !.st = st]
    /\ UNCHANGED <<peer, portal, trial, current_uses, subs, invoices, ledger, hs, now, age, deliveries, forged, faults,
                   resp, applied, ext, notes, first>>

\* The period the scheduler saves for an APPROVED or PENDING answer.
ScheduledPeriod(o) == [o EXCEPT !.pstart = now, !.pend = now + CycleDays(o.cycle)]

\* APPROVED or PENDING: the period restarts today; anything else: past_due.
\* Either way the loaded object is saved and the item's result recorded.
SchedSave ==
    /\ rq.kind = "sched"
    /\ rq.pc = "save"
    /\ LET s == Head(rq.queue).sid
           o == Head(rq.queue).obj
           good == rq.st \in {"APPROVED", "PENDING"}
       IN  /\ IF good
              THEN /\ subs' = [subs EXCEPT ![s] = ScheduledPeriod(o)]
                   /\ ext' = [ext EXCEPT ![rq.tx] = @ + 1]
              ELSE /\ subs' = [subs EXCEPT ![s] = [o EXCEPT !.status = "past_due"]]
                   /\ ext' = ext
           /\ rq' = [rq EXCEPT !.pc = "item", !.queue = Tail(@), !.tx = 0, !.st = "none",
                               !.results = Append(@, Result(s, PlanAmount(o),
                                               IF good THEN "success" ELSE "failed", rq.tx))]
    /\ first' = Mark(rq.tx, "sync")
    /\ UNCHANGED <<peer, portal, trial, current_uses, invoices, ledger, gw, hs, now, age, deliveries, forged, faults,
                   resp, applied, notes>>

\* The number of results with a status in S.
RECURSIVE CountIn(_, _)
CountIn(results, S) ==
    IF results = <<>> THEN 0
    ELSE (IF Head(results).status \in S THEN 1 ELSE 0) + CountIn(Tail(results), S)

\* A summary whose failed count leaves out the items that raised.
SummaryWithoutErrors(results) ==
    [total_processed |-> Len(results),
     successful |-> CountIn(results, {"success"}),
     failed |-> CountIn(results, {"failed"}),
     simulated |-> CountIn(results, {"simulated"})]

\* The summary of the response: failed counts failed and error.
Summary(results) ==
    [total_processed |-> Len(results),
     successful |-> CountIn(results, {"success"}),
     failed |-> CountIn(results, {"failed", "error"}),
     simulated |-> CountIn(results, {"simulated"})]

\* The loop has ended and the response is returned.
SchedReturn ==
    /\ rq.kind = "sched"
    /\ rq.pc = "item"
    /\ rq.queue = <<>>
    /\ rq' = IdleRq
    /\ UNCHANGED <<peer, portal, trial, current_uses, subs, invoices, ledger, gw, hs, now, age, deliveries, forged, faults,
                   resp, applied, ext, notes, first>>

\* ------------------------- model: cancellation and reactivation in grace

\* A cancellation that ends the paid period at once.
CancelledAtOnce(o) ==
    [o EXCEPT !.status = "cancelled", !.cancelled = TRUE, !.pend = IF now < @ THEN now ELSE @]

\* The row as billing_cancel_subscription saves it: status cancelled and
\* cancelled_at set.
CancelledObject(o) == [o EXCEPT !.status = "cancelled", !.cancelled = TRUE]

\* billing_cancel_subscription, unless the Subscription is cancelled already.
CancelSubscription(c) ==
    /\ rq = IdleRq
    /\ subs[c] # NoSub
    /\ subs[c].status # "cancelled"
    /\ subs' = [subs EXCEPT ![c] = CancelledObject(@)]
    /\ UNCHANGED <<peer, portal, trial, current_uses, invoices, ledger, gw, hs, rq, now, age, deliveries,
                   forged, faults, resp, applied, ext, notes, first>>

\* ------------------------------- model: suspension and payment-source void

\* api_suspend_subscription stores the loaded object with status suspended.
SuspendedObject(o) == [o EXCEPT !.status = "suspended"]

\* api_suspend_subscription: anything but an active Subscription is answered
\* 400 and left alone.
SuspendSubscription(c) ==
    /\ rq = IdleRq
    /\ subs[c] # NoSub
    /\ subs' = IF subs[c].status = "active"
               THEN [subs EXCEPT ![c] = SuspendedObject(@)]
               ELSE subs
    /\ UNCHANGED <<peer, portal, trial, current_uses, invoices, ledger, gw, hs, rq, now, age, deliveries,
                   forged, faults, resp, applied, ext, notes, first>>

\* manage_payment_source, action void: payment_source_id = None is saved to a
\* column without null=True, so save() raises IntegrityError, the view's
\* except answers 500 and the row keeps its status and payment source.
VoidPaymentSource(c) ==
    /\ rq = IdleRq
    /\ subs[c] # NoSub
    /\ subs[c].psrc # 0
    /\ UNCHANGED vars

\* What the call of the provisioning webhook can come to: no URL configured,
\* a 200 with a body that says success or says nothing about it, a 200 without
\* JSON, a 200 whose body says success false, a 401, another status, a
\* timeout or connection error.
N8nAnswers == {"no_url", "ok", "ok_no_json", "success_false", "unauthorized", "error", "timeout"}

\* The grace period check: current_period_end.date() is not before today.
InGrace(o) == ~(o.pend < now)

\* notify_n8n_subscription_reactivated returns a truthy value.
Confirms(a) == a \in {"ok", "ok_no_json"}

\* reactivate_subscription up to the answer of the provisioning collaborator:
\* the Subscription must be cancelled; after its period it is sent to the
\* renewal; otherwise the collaborator is notified, and a failure ends the
\* request.
RaNotify(c) ==
    /\ rq = IdleRq
    /\ subs[c] # NoSub
    /\ subs[c].status = "cancelled"
    /\ IF ~InGrace(subs[c])
       THEN /\ rq' = [kind |-> "reactivate", pc |-> "return", sid |-> c, obj |-> subs[c],
                      out |-> "expired"]
            /\ notes' = notes
       ELSE \E a \in N8nAnswers :
              /\ notes' = notes \cup {Note(c, Confirms(a), "reactivate", 0)}
              /\ rq' = [kind |-> "reactivate", pc |-> IF Confirms(a) THEN "save" ELSE "return",
                        sid |-> c, obj |-> subs[c],
                        out |-> IF Confirms(a) THEN "confirmed" ELSE "failed"]
    /\ UNCHANGED <<peer, portal, trial, current_uses, subs, invoices, ledger, gw, hs, now, age, deliveries,
                   forged, faults, resp, applied, ext, first>>

\* The row as reactivate_subscription saves it: the object it loaded with
\* status active and cancelled_at cleared.
ReactivatedObject(o) == [o EXCEPT !.status = "active", !.cancelled = FALSE]

\* subscription.save() after the confirmation.
RaSave ==
    /\ rq.kind = "reactivate"
    /\ rq.pc = "save"
    /\ subs' = [subs EXCEPT ![rq.sid] = ReactivatedObject(rq.obj)]
    /\ rq' = IdleRq
    /\ UNCHANGED <<peer, portal, trial, current_uses, invoices, ledger, gw, hs, now, age, deliveries,
                   forged, faults, resp, applied, ext, notes, first>>

\* The redirect that ends a reactivation without a change.
RaReturn ==
    /\ rq.kind = "reactivate"
    /\ rq.pc = "return"
    /\ rq' = IdleRq
    /\ UNCHANGED <<peer, portal, trial, current_uses, subs, invoices, ledger, gw, hs, now, age, deliveries,
                   forged, faults, resp, applied, ext, notes, first>>

\* ------------------------------------------- model: _process_card_payment

\* Days from a date to the same day of the next month / next year
\* (relativedelta in Subscription.save on creation).
MonthLengths == {28, 29, 30, 31}
YearLengths == {365, 366}

\* The one active campaign: a fixed discount for companies whose trial is
\* over, usable max_uses times.
MaxUses == 1
DiscountValue == 500

\* DiscountCampaign.can_apply_to_user for company c with
\* apply_to_trial_expired set: the campaign is still valid and the company
\* has a Trial that is no longer active.
CanApply(c) == current_uses < MaxUses /\ trial[c] \notin {"none", "active"}

\* Decimal amounts with two places are counted in hundredths; products of two
\* of them over 100 are exact in millionths.
Millionths(hundredths) == hundredths * 10000

\* A fixed discount taken in full whatever the price.
UncappedDiscount(discount_type, discount_value, original_price) ==
    IF discount_type = "percentage"
    THEN original_price * discount_value
    ELSE Millionths(discount_value)

\* DiscountCampaign.calculate_discount, in millionths, of a price and a
\* discount_value in hundredths: original_price * (discount_value / 100) for
\* a percentage, min(discount_value, original_price) for a fixed amount.
calculate_discount(discount_type, discount_value, original_price) ==
    IF discount_type = "percentage"
    THEN original_price * discount_value
    ELSE Millionths(IF discount_value < original_price THEN discount_value
                    ELSE original_price)

\* amount = amount - discount_amount, in millionths.
Payable(discount_type, discount_value, original_price) ==
    Millionths(original_price)
        - calculate_discount(discount_type, discount_value, original_price)

\* The discount of the fixed campaign on a price in whole pesos.
CalculateDiscount(price) ==
    calculate_discount("fixed", DiscountValue * 100, price * 100) \div 1000000

\* The discount step of the checkout on its own: a campaign and a price.
QuoteTypes == {"percentage", "fixed"}
QuoteValues == {-50000, 0, 1, 2000, 10000, 50000, 99999}
QuotePrices == {0, 1, 99, 100, 2000, 10000, 20000}

ApplyDiscount ==
    /\ rq.kind = "quote"
    /\ rq.pc = "input"
    /\ rq' = [rq EXCEPT !.pc = "done",
                        !.discount = calculate_discount(rq.type, rq.value, rq.price),
                        !.amount = Payable(rq.type, rq.value, rq.price)]
    /\ UNCHANGED <<peer, portal, trial, current_uses, subs, invoices, ledger, gw, hs, now, age,
                   deliveries, forged, faults, resp, applied, ext, notes, first>>

\* The checkout up to the answer of create_recurring_transaction: the amount
\* is the plan's price less the discount of the applicable campaign, the
\* reference is LYVIO-FIRST-<plan>-<user>-<ts>, charged on the new payment
\* source.
CoCharge(c, p, cycle) ==
    /\ rq = IdleRq
    /\ subs[c] = NoSub
    /\ FreeTx # {}
    /\ LET price == IF cycle = "yearly" THEN PriceYearly(p) ELSE PriceMonthly(p)
           amount == IF CanApply(c) THEN price - CalculateDiscount(price) ELSE price
       IN  \E st \in {"APPROVED", "PENDING", "DECLINED"} :
             /\ gw' = [gw EXCEPT ![NextTx] = Tx(st, "FIRST", c, p, 1, c, amount)]
             /\ rq' = [kind |-> "checkout", pc |-> "poll", sid |-> c, tx |-> NextTx,
                       plan |-> p, cycle |-> cycle, st |-> st, attempt |-> 0,
                       trial |-> trial[c], discount |-> CanApply(c),
                       uses |-> current_uses, status |-> "none"]
    /\ UNCHANGED <<peer, portal, trial, current_uses, subs, invoices, ledger, hs, now, age, deliveries,
                   forged, faults, resp, applied, ext, notes, first>>

\* A checkout that stores a pending Subscription for whatever the gateway
\* did not approve.
AfterPollLenient(seen, attempt) ==
    IF seen = "APPROVED" THEN "active"
    ELSE IF seen = "PENDING" /\ attempt + 1 < PollAttemptsCheckout THEN "again"
    ELSE "pending"

\* What one round of the polling loop (max_attempts = 15) and the check that
\* follows the loop make of the status the gateway reports: APPROVED leaves
\* the loop for an active Subscription, a final failure raises, PENDING goes
\* on to the next round or, after the last one, to a pending Subscription.
AfterPoll(seen, attempt) ==
    IF seen = "APPROVED" THEN "active"
    ELSE IF seen = "DECLINED" THEN "raise"
    ELSE IF attempt + 1 < PollAttemptsCheckout THEN "again"
    ELSE IF seen = "PENDING" THEN "pending"
    ELSE "raise"

\* One round of the polling loop.  An exception ends the request with an
\* error message and nothing stored.
CoPoll ==
    /\ rq.kind = "checkout"
    /\ rq.pc = "poll"
    /\ LET seen == gw[rq.tx].status
           out == AfterPoll(seen, rq.attempt)
       IN  rq' = IF out = "raise" THEN IdleRq
                 ELSE IF out = "again" THEN [rq EXCEPT !.st = seen, !.attempt = @ + 1]
                 ELSE [rq EXCEPT !.st = seen, !.pc = "create", !.status = out]
    /\ UNCHANGED <<peer, portal, trial, current_uses, subs, invoices, ledger, gw, hs, now, age,
                   deliveries, forged, faults, resp, applied, ext, notes, first>>

\* An increment made in the database, on the stored count.
UsesAfterStored(loaded, stored) == stored + 1

\* applicable_discount.current_uses += 1; applicable_discount.save(): the
\* count the request loaded when it looked for a campaign, plus one.
UsesAfter(loaded, stored) == loaded + 1

\* Subscription.objects.create with the status the polling decided and the
\* transaction id as wompi_subscription_id; Subscription.save replaces the
\* period end of a new row by now + one month or one year.  Then the Trial
\* read at the start is saved as converted and the campaign read at the
\* start is saved with one more use.
CoCreate ==
    /\ rq.kind = "checkout"
    /\ rq.pc = "create"
    /\ \E len \in (IF rq.cycle = "yearly" THEN YearLengths ELSE MonthLengths) :
        subs' = [subs EXCEPT ![rq.sid] =
                    Sub(rq.status, rq.cycle, now, now + len, 1, rq.tx, rq.plan)]
    /\ age' = [age EXCEPT ![rq.sid] = 0]
    /\ first' = Mark(rq.tx, "sync")
    /\ trial' = IF rq.trial # "none" THEN [trial EXCEPT ![rq.sid] = "converted"] ELSE trial
    /\ current_uses' = IF rq.discount THEN UsesAfter(rq.uses, current_uses) ELSE current_uses
    /\ rq' = IdleRq
    /\ UNCHANGED <<peer, portal, invoices, ledger, gw, hs, now, deliveries, forged, faults,
                   resp, applied, ext, notes>>

\* ------------------------------------- model: a checkout in another worker

\* The same view served by a second web worker for another company: the
\* steps of CoCharge, CoPoll and CoCreate on that worker's own locals.
PeerCharge(c, p, cycle) ==
    /\ peer = IdleRq
    /\ subs[c] = NoSub
    /\ rq.kind = "checkout" => rq.sid # c
    /\ FreeTx # {}
    /\ LET price == IF cycle = "yearly" THEN PriceYearly(p) ELSE PriceMonthly(p)
           amount == IF CanApply(c) THEN price - CalculateDiscount(price) ELSE price
       IN  \E st \in {"APPROVED", "PENDING", "DECLINED"} :
             /\ gw' = [gw EXCEPT ![NextTx] = Tx(st, "FIRST", c, p, 1, c, amount)]
             /\ peer' = [kind |-> "checkout", pc |-> "poll", sid |-> c, tx |-> NextTx,
                         plan |-> p, cycle |-> cycle, st |-> st, attempt |-> 0,
                         trial |-> trial[c], discount |-> CanApply(c),
                         uses |-> current_uses, status |-> "none"]
    /\ UNCHANGED <<portal, rq, trial, current_uses, subs, invoices, ledger, hs, now, age,
                   deliveries, forged, faults, resp, applied, ext, notes, first>>

PeerPoll ==
    /\ peer.kind = "checkout"
    /\ peer.pc = "poll"
    /\ LET seen == gw[peer.tx].status
           out == AfterPoll(seen, peer.attempt)
       IN  peer' = IF out = "raise" THEN IdleRq
                   ELSE IF out = "again" THEN [peer EXCEPT !.st = seen, !.attempt = @ + 1]
                   ELSE [peer EXCEPT !.st = seen, !.pc = "create", !.status = out]
    /\ UNCHANGED <<portal, rq, trial, current_uses, subs, invoices, ledger, gw, hs, now, age,
                   deliveries, forged, faults, resp, applied, ext, notes, first>>

PeerCreate ==
    /\ peer.kind = "checkout"
    /\ peer.pc = "create"
    /\ \E len \in (IF peer.cycle = "yearly" THEN YearLengths ELSE MonthLengths) :
        subs' = [subs EXCEPT ![peer.sid] =
                    Sub(peer.status, peer.cycle, now, now + len, 1, peer.tx, peer.plan)]
    /\ age' = [age EXCEPT ![peer.sid] = 0]
    /\ first' = Mark(peer.tx, "sync")
    /\ trial' = IF peer.trial # "none" THEN [trial EXCEPT ![peer.sid] = "converted"] ELSE trial
    /\ current_uses' = IF peer.discount THEN UsesAfter(peer.uses, current_uses)
                       ELSE current_uses
    /\ peer' = IdleRq
    /\ UNCHANGED <<portal, rq, invoices, ledger, gw, hs, now, deliveries, forged, faults,
                   resp, applied, ext, notes>>

\* ------------------------------------------------ model: the login portal

MaxClock == 4
AUTO_LOGOUT_DELAY == 2
SSO_TOKEN_EXPIRY_MINUTES == 5

Clients == {"b1", "b2"}
TokenIds == {1, 2}
RequestIds == {1, 2}

IdleSso == [pc |-> "idle"]

\* A session without user and without last_activity; user 0 is AnonymousUser.
NewSession == [user |-> 0, last |-> <<>>]

\* No answer given yet.
NoAnswer == [op |-> "none"]

\* The redirect of sso_login and the JSON answer of generate_sso_token.
Answer302(b, op, arg, err) == [to |-> b, op |-> op, arg |-> arg, code |-> 302, err |-> err]

AnswerJson(b, arg, code, err) ==
    [to |-> b, op |-> "generate", arg |-> arg, code |-> code, err |-> err]

\* Time passes by d seconds.
Wait(d) ==
    /\ clock < MaxClock
    /\ clock' = clock + d
    /\ UNCHANGED <<billing, tokens, sh, sessions, logins, sresp>>

\* A middleware that never times a session out.
MiddlewareWithoutTimeout(s) ==
    IF s.user = 0 THEN [s EXCEPT !.last = <<>>] ELSE [s EXCEPT !.last = <<clock>>]

\* AutoLogoutMiddleware.__call__ on the session of a request: an anonymous
\* request loses last_activity; an authenticated one idle for more than the
\* delay is logged out and its session flushed; otherwise last_activity is set
\* to the time of the request.
Middleware(s) ==
    IF s.user = 0 THEN [s EXCEPT !.last = <<>>]
    ELSE IF s.last # <<>> /\ clock - s.last[1] > AUTO_LOGOUT_DELAY THEN NewSession
    ELSE [s EXCEPT !.last = <<clock>>]

\* A request of a client for any page; the answer tells whether the
\* middleware logged the user out.
MwCall(b) ==
    /\ sh[b] = IdleSso
    /\ sessions' = [sessions EXCEPT ![b] = Middleware(@)]
    /\ sresp' = [to |-> b, op |-> "page", arg |-> 0, code |-> 200,
                 err |-> IF sessions[b].user # 0 /\ Middleware(sessions[b]).user = 0
                         THEN "auto_logout" ELSE "none"]
    /\ UNCHANGED <<billing, tokens, sh, logins, clock>>

\* billing_logout: logout(request) flushes the session.
Logout(b) ==
    /\ sh[b] = IdleSso
    /\ sessions[b].user # 0
    /\ sessions' = [sessions EXCEPT ![b] = NewSession]
    /\ UNCHANGED <<billing, tokens, sh, logins, sresp, clock>>

\* A replay check that finds nothing.
RequestIdNeverTaken(rid) == FALSE

\* SSOToken.objects.filter(request_id=request_id).exists()
RequestIdTaken(rid) == \E k \in tokens : k.request_id = rid

\* secrets.token_hex(32): a value no row holds.
FreshToken == CHOOSE t \in TokenIds : \A k \in tokens : k.token # t

\* generate_sso_token up to the replay check: a wrong secret is answered 403,
\* a timestamp older than the maximum age 400, a request_id that a token
\* holds 400.
GenCheck(b, rid, account, email, secret_ok, fresh) ==
    /\ sh[b] = IdleSso
    /\ IF ~secret_ok
       THEN /\ sresp' = AnswerJson(b, rid, 403, "invalid_secret")
            /\ sh' = sh
       ELSE IF ~fresh
       THEN /\ sresp' = AnswerJson(b, rid, 400, "timestamp")
            /\ sh' = sh
       ELSE IF RequestIdTaken(rid)
       THEN /\ sresp' = AnswerJson(b, rid, 400, "duplicate_request_id")
            /\ sh' = sh
       ELSE /\ sresp' = sresp
            /\ sh' = [sh EXCEPT ![b] = [pc |-> "create", rid |-> rid, account |-> account,
                                        email |-> email]]
    /\ UNCHANGED <<billing, tokens, sessions, logins, clock>>

\* SSOToken.objects.create inside transaction.atomic: the unique constraint
\* on request_id turns a second insert into an IntegrityError, answered 500.
GenCreate(b) ==
    /\ sh[b].pc = "create"
    /\ IF \E k \in tokens : k.request_id = sh[b].rid
       THEN /\ tokens' = tokens
            /\ sresp' = AnswerJson(b, sh[b].rid, 500, "failed_to_create")
       ELSE /\ tokens' = tokens \cup
                   {[token |-> FreshToken, request_id |-> sh[b].rid,
                     account |-> sh[b].account, email |-> sh[b].email, used |-> FALSE,
                     expires_at |-> clock + SSO_TOKEN_EXPIRY_MINUTES * 60]}
            /\ sresp' = AnswerJson(b, sh[b].rid, 201, "none")
    /\ sh' = [sh EXCEPT ![b] = IdleSso]
    /\ UNCHANGED <<billing, sessions, logins, clock>>

\* token_obj.used on the row the request has read.
Used(k) == k.used

\* sso_login up to the choice of the user, behind the middleware: the token
\* must exist, be unused and not expired; without email the company of the
\* account must have a Subscription or an active Trial and an active user;
\* with email the user of that email must be active.
SsoGet(b, t, active) ==
    /\ sh[b] = IdleSso
    /\ sessions' = [sessions EXCEPT ![b] = Middleware(@)]
    /\ LET rows == {k \in tokens : k.token = t}
           k == CHOOSE r \in rows : TRUE
           err == IF rows = {} THEN "invalid_token"
                  ELSE IF Used(k) THEN "token_already_used"
                  ELSE IF clock > k.expires_at THEN "token_expired"
                  ELSE IF ~k.email /\ subs[k.account] = NoSub /\ trial[k.account] # "active"
                  THEN "no_subscription"
                  ELSE IF ~active
                  THEN (IF k.email THEN "user_inactive" ELSE "no_active_user")
                  ELSE "none"
       IN  IF err # "none"
           THEN /\ sresp' = Answer302(b, "login", t, err)
                /\ sh' = sh
           ELSE /\ sresp' = sresp
                /\ sh' = [sh EXCEPT ![b] = [pc |-> "login", token |-> t, user |-> k.account]]
    /\ UNCHANGED <<billing, tokens, logins, clock>>

\* The session after django.contrib.auth.login of user u: the data of another
\* user's session is flushed, otherwise kept.
LoggedIn(s, u) == IF s.user \notin {0, u} THEN [user |-> u, last |-> <<>>] ELSE [s EXCEPT !.user = u]

\* token_obj.mark_as_used() and login(request, user) in one transaction, then
\* the redirect to the dashboard.
SsoLogin(b) ==
    /\ sh[b].pc = "login"
    /\ tokens' = {IF k.token = sh[b].token THEN [k EXCEPT !.used = TRUE] ELSE k : k \in tokens}
    /\ sessions' = [sessions EXCEPT ![b] = LoggedIn(@, sh[b].user)]
    /\ logins' = [logins EXCEPT ![sh[b].token] = @ + 1]
    /\ sresp' = Answer302(b, "login", sh[b].token, "none")
    /\ sh' = [sh EXCEPT ![b] = IdleSso]
    /\ UNCHANGED <<billing, clock>>

\* --------------------------------------------- specification: the webhook

\* States in which a charge is in flight at the gateway and no request is
\* being served: a checkout that left its Subscription pending at the poll
\* ceiling; a retry_payment that gave up polling; a charge of the external
\* orchestrator; and a checkout that raised while polling, so that the
\* gateway holds a first payment for which no Subscription was stored.
InitScenarios ==
    { [sub |-> Sub("pending", "monthly", 0, 30, 1, 1, 1), kind |-> "FIRST", age |-> 0],
      [sub |-> Sub("pending", "monthly", 0, 31, 1, 1, 1), kind |-> "FIRST", age |-> 1],
      [sub |-> Sub("suspended", "monthly", -30, 0, 1, 0, 1), kind |-> "RETRY", age |-> 2],
      [sub |-> Sub("active", "monthly", -30, 0, 1, 0, 1), kind |-> "REC", age |-> 2],
      [sub |-> Sub("active", "yearly", -365, 0, 1, 0, 2), kind |-> "REC", age |-> 2],
      [sub |-> NoSub, kind |-> "FIRST", age |-> 2] }

\* No company is on trial.
NoTrials == trial = [c \in SubIds |-> "none"]

\* Empty tables and histories.
InitTables ==
    /\ invoices = {}
    /\ ledger = {}
    /\ hs = [h \in Handlers |-> IdleHandler]
    /\ now = 0
    /\ deliveries = 0
    /\ forged = 0
    /\ faults = 0
    /\ resp = {}
    /\ applied = [e \in TxIds |-> 0]
    /\ ext = [t \in TxIds |-> 0]
    /\ notes = {}
    /\ first = [t \in TxIds |-> "none"]
    /\ current_uses = 0
    /\ peer = IdleRq
    /\ tokens = {}
    /\ sh = [b \in Clients |-> IdleSso]
    /\ sessions = [b \in Clients |-> NewSession]
    /\ logins = [t \in TokenIds |-> 0]
    /\ sresp = NoAnswer
    /\ clock = 0

InitCommon == InitTables /\ rq = IdleRq

Init ==
    /\ InitCommon
    /\ NoTrials
    /\ \E sc \in InitScenarios :
        /\ subs = [s \in SubIds |-> IF s = 1 THEN sc.sub ELSE NoSub]
        /\ age = [s \in SubIds |-> IF s = 1 THEN sc.age ELSE 2]
        /\ gw = [t \in TxIds |->
                   IF t = 1
                   THEN Tx("PENDING", sc.kind, 1, 1, 1, 1,
                           IF sc.sub = NoSub THEN PriceMonthly(1) ELSE PlanAmount(sc.sub))
                   ELSE NoTx]

Next ==
    \/ Webhook
    \/ \E t \in TxIds : GwResolve(t)
    \/ \E s \in SubIds : ExternalCharge(s)
    \/ Minutes

Spec == Init /\ [][Next]_vars

\* ------------------------------------- specification: the account views

\* A subscribed company with a stored card, suspended after a failed renewal
\* or active, and the views its user can call: retry_payment,
\* update_payment_method, billing_upgrade_plan, renew_expired_subscription.
InitAccount ==
    /\ InitCommon
    /\ NoTrials
    /\ \E st \in {"suspended", "active"} :
        subs = [s \in SubIds |->
                  IF s = 1 THEN Sub(st, "monthly", -30, 0, 1, 0, 1) ELSE NoSub]
    /\ age = [s \in SubIds |-> 2]
    /\ gw = [t \in TxIds |-> NoTx]

NextAccount ==
    \/ Deliver("w1")
    \/ \E t \in TxIds : GwResolve(t)
    \/ \E c \in SubIds : RpCharge(c) \/ UpmRead(c) \/ RenewAttempt(c)
    \/ RpApply
    \/ RpPoll
    \/ UpmSave
    \/ UpmApply
    \/ UpmPoll

SpecAccount == InitAccount /\ [][NextAccount]_vars

\* --------------------------------------- specification: the plan upgrade

\* A pending recurring charge of the orchestrator (LYVIO-REC-) on company c.
RecurringCharge(c, o) == Tx("PENDING", "REC", c, o.plan, o.psrc, c, PlanAmount(o))

\* An active company, charged for its renewal by the orchestrator, upgrades
\* its plan while the workers handle the webhooks of both charges.
InitUpgrade ==
    /\ InitCommon
    /\ NoTrials
    /\ subs = [s \in SubIds |-> IF s = 1 THEN Sub("active", "monthly", -30, 0, 1, 0, 1) ELSE NoSub]
    /\ age = [s \in SubIds |-> 2]
    /\ gw = [t \in TxIds |-> IF t = 1 THEN RecurringCharge(1, subs[1]) ELSE NoTx]

NextUpgrade ==
    \/ \E h \in Handlers : Deliver(h)
    \/ \E t \in TxIds : GwResolve(t)
    \/ \E c \in SubIds, p \in Plans, cycle \in {"monthly", "yearly"} : UpgCharge(c, p, cycle)
    \/ UpgSave
    \/ UpgInvoice

SpecUpgrade == InitUpgrade /\ [][NextUpgrade]_vars

\* ------------------------------------------- specification: the scheduler

\* An active Subscription whose period ends today, or one created today in a
\* month of 31 days, and the scheduler endpoint called daily or with ids.
InitSched ==
    /\ InitCommon
    /\ NoTrials
    /\ \E pend \in {0, 31}, cycle \in {"monthly", "yearly"} :
        subs = [s \in SubIds |->
                  IF s = 1
                  THEN Sub("active", cycle, IF pend = 0 THEN -CycleDays(cycle) ELSE 0,
                           IF pend = 0 THEN 0 ELSE IF cycle = "yearly" THEN 365 ELSE 31,
                           1, 0, 1)
                  ELSE NoSub]
    /\ age = [s \in SubIds |-> 2]
    /\ gw = [t \in TxIds |-> NoTx]

NextSched ==
    \/ Deliver("w1")
    \/ \E t \in TxIds : GwResolve(t)
    \/ \E s \in SubIds : ExternalCharge(s)
    \/ \E ids \in SUBSET SubIds, dry \in BOOLEAN : SchedSelect(ids, dry)
    \/ SchedCharge
    \/ SchedSave
    \/ SchedReturn
    \/ Tick

SpecSched == InitSched /\ [][NextSched]_vars

\* -------------------------------------------- specification: the checkout

\* A company without Subscription pays its first period by card, next to a
\* subscribed company whose renewal the orchestrator has charged.
InitCheckout ==
    /\ InitCommon
    /\ \E tr \in {"none", "active", "expired"} :
        trial = [c \in SubIds |-> IF c = 1 THEN tr ELSE "none"]
    /\ subs = [s \in SubIds |-> IF s = 2 THEN Sub("active", "monthly", -30, 0, 2, 0, 1) ELSE NoSub]
    /\ age = [s \in SubIds |-> 2]
    /\ gw = [t \in TxIds |-> IF t = 1 THEN RecurringCharge(2, subs[2]) ELSE NoTx]

NextCheckout ==
    \/ Deliver("w1")
    \/ \E t \in TxIds : GwResolve(t)
    \/ \E c \in SubIds, p \in Plans, cycle \in {"monthly", "yearly"} : CoCharge(c, p, cycle)
    \/ CoPoll
    \/ CoCreate
    \/ Minutes

SpecCheckout == InitCheckout /\ [][NextCheckout]_vars

\* ------------------------------------ specification: a failing database

\* A suspended Subscription whose manual retry is at the gateway, or an
\* active one charged by the orchestrator; one worker handles the deliveries
\* while statements of the reconciliation and of step 4 may fail.
InitFaulty ==
    /\ InitCommon
    /\ NoTrials
    /\ \E kind \in {"RETRY", "REC"} :
        /\ subs = [s \in SubIds |->
                     IF s = 1
                     THEN Sub(IF kind = "RETRY" THEN "suspended" ELSE "active",
                              "monthly", -30, 0, 1, 0, 1)
                     ELSE NoSub]
        /\ gw = [t \in TxIds |->
                   IF t = 1 THEN Tx("PENDING", kind, 1, 1, 1, 1, PriceMonthly(1)) ELSE NoTx]
    /\ age = [s \in SubIds |-> 2]

NextFaulty ==
    \/ Deliver("w1")
    \/ WhRaise("w1")
    \/ WhFault("w1")
    \/ \E t \in TxIds : GwResolve(t)

SpecFaulty == InitFaulty /\ [][NextFaulty]_vars

\* ---------------------------------- specification: a contested payload

\* Subscription 1 was created by transaction 1 (its wompi_subscription_id);
\* the reference of that transaction names Subscription 2, as a recurring
\* charge, a retry or a first payment of its user.
InitContested ==
    /\ InitCommon
    /\ NoTrials
    /\ \E sa \in {"pending", "active"}, sb \in {"active", "suspended"},
          kind \in {"REC", "RETRY", "FIRST"} :
        /\ subs = [s \in SubIds |->
                     IF s = 1 THEN Sub(sa, "monthly", 0, 30, 1, 1, 1)
                     ELSE Sub(sb, "monthly", -30, 0, 2, 0, 1)]
        /\ gw = [t \in TxIds |->
                   IF t = 1 THEN Tx("PENDING", kind, 2, 1, 1, 1, PriceMonthly(1)) ELSE NoTx]
    /\ age = [s \in SubIds |-> 1]

NextContested ==
    \/ \E h \in Handlers : Deliver(h)
    \/ \E t \in TxIds : GwResolve(t)

SpecContested == InitContested /\ [][NextContested]_vars

\* ------------------------------ specification: a payload two strategies match

\* Neither Subscription was created by transaction 1.  The payload carries
\* the payment source of Subscription 1, or none, the e-mail of Subscription 1,
\* and a reference that names Subscription 2 as a recurring charge, a retry or
\* a first payment; both Subscriptions are recent or both are old.
InitOrder ==
    /\ InitCommon
    /\ NoTrials
    /\ \E sa \in {"pending", "active"}, kind \in {"REC", "RETRY", "FIRST"},
          src \in {0, 1}, recent \in {0, 1} :
        /\ subs = [s \in SubIds |->
                     IF s = 1 THEN Sub(sa, "monthly", 0, 30, 1, 0, 1)
                     ELSE Sub("active", "monthly", -30, 0, 2, 0, 1)]
        /\ gw = [t \in TxIds |->
                   IF t = 1 THEN Tx("PENDING", kind, 2, 1, src, 1, PriceMonthly(1)) ELSE NoTx]
        /\ age = [s \in SubIds |-> recent]

NextOrder ==
    \/ \E h \in Handlers : Deliver(h)
    \/ \E t \in TxIds : GwResolve(t)

SpecOrder == InitOrder /\ [][NextOrder]_vars

\* ------------------------------------- specification: a first payment

\* A Subscription awaiting its first payment, stored with or without the
\* transaction id, whose payload carries its payment source or none and its
\* e-mail or none, at several ages; and, for comparison, an active
\* Subscription charged by the scheduler.
InitFirst ==
    /\ InitCommon
    /\ NoTrials
    /\ \E kind \in {"FIRST", "REC"}, w \in {0, 1}, src \in {0, 1}, mail \in {0, 1},
          a \in {0, 1, 2} :
        /\ subs = [s \in SubIds |->
                     IF s = 1
                     THEN Sub(IF kind = "FIRST" THEN "pending" ELSE "active",
                              "monthly", 0, 30, 1, w, 1)
                     ELSE NoSub]
        /\ gw = [t \in TxIds |->
                   IF t = 1 THEN Tx("PENDING", kind, 1, 1, src, mail, PriceMonthly(1)) ELSE NoTx]
        /\ age = [s \in SubIds |-> a]

NextFirst ==
    \/ \E h \in Handlers : Deliver(h)
    \/ \E t \in TxIds : GwResolve(t)

SpecFirst == InitFirst /\ [][NextFirst]_vars

\* ------------------------------- specification: the status of a Subscription

\* A Subscription in any status, with a renewal charge of the orchestrator at
\* the gateway; the company cancels, the orchestrator suspends or voids the
\* payment source, and a worker handles the webhook.
InitEdges ==
    /\ InitCommon
    /\ NoTrials
    /\ \E st \in {"pending", "active", "suspended", "past_due", "cancelled"}, e \in {0, 30} :
        subs = [s \in SubIds |-> IF s = 1 THEN Sub(st, "monthly", e - 30, e, 1, 0, 1)
                                 ELSE NoSub]
    /\ age = [s \in SubIds |-> 2]
    /\ gw = [t \in TxIds |-> IF t = 1 THEN RecurringCharge(1, subs[1]) ELSE NoTx]

NextEdges ==
    \/ Deliver("w1")
    \/ \E t \in TxIds : GwResolve(t)
    \/ \E c \in SubIds : CancelSubscription(c)
    \/ \E c \in SubIds : SuspendSubscription(c)
    \/ \E c \in SubIds : VoidPaymentSource(c)

SpecEdges == InitEdges /\ [][NextEdges]_vars

\* ------------------------------- specification: two checkouts, one campaign

\* Two companies without Subscription, each with an expired Trial or none,
\* check out at the same time on two web workers while the campaign has
\* uses left.
InitCampaign ==
    /\ InitCommon
    /\ \E tr \in {"none", "expired"} :
        trial = [c \in SubIds |-> IF c = 1 THEN "expired" ELSE tr]
    /\ subs = [s \in SubIds |-> NoSub]
    /\ age = [s \in SubIds |-> 2]
    /\ gw = [t \in TxIds |-> NoTx]

NextCampaign ==
    \/ \E c \in SubIds, cycle \in {"monthly", "yearly"} :
            (peer.kind = "checkout" => peer.sid # c) /\ CoCharge(c, 1, cycle)
    \/ CoPoll
    \/ CoCreate
    \/ \E c \in SubIds : PeerCharge(c, 2, "monthly")
    \/ PeerPoll
    \/ PeerCreate
    \/ \E t \in TxIds : GwResolve(t)

SpecCampaign == InitCampaign /\ [][NextCampaign]_vars

\* ------------------------------------------ specification: a scheduler batch

\* Two active Subscriptions whose period ends today, the second with or
\* without a stored payment source, and the scheduler endpoint in both
\* selection modes, with and without dry_run.
InitBatch ==
    /\ InitCommon
    /\ NoTrials
    /\ \E p \in {0, 2} :
        subs = [s \in SubIds |->
                  Sub("active", "monthly", -30, 0, IF s = 1 THEN 1 ELSE p, 0, s)]
    /\ age = [s \in SubIds |-> 2]
    /\ gw = [t \in TxIds |-> NoTx]

NextBatch ==
    \/ \E ids \in SUBSET SubIds, dry \in BOOLEAN : SchedSelect(ids, dry)
    \/ SchedCharge
    \/ SchedSave
    \/ SchedReturn
    \/ \E t \in TxIds : GwResolve(t)

SpecBatch == InitBatch /\ [][NextBatch]_vars

\* ------------------------------------------ specification: a cancellation

\* A Subscription in its paid period, or on the last day of it, with a renewal
\* charge of the orchestrator in flight; the owner cancels and reactivates
\* while the days pass and the webhook of the charge arrives.
InitCancel ==
    /\ InitCommon
    /\ NoTrials
    /\ \E e \in {0, 30} :
        subs = [s \in SubIds |-> IF s = 1 THEN Sub("active", "monthly", e - 30, e, 1, 0, 1)
                                 ELSE NoSub]
    /\ age = [s \in SubIds |-> 2]
    /\ gw = [t \in TxIds |-> IF t = 1 THEN RecurringCharge(1, subs[1]) ELSE NoTx]

NextCancel ==
    \/ Deliver("w1")
    \/ \E t \in TxIds : GwResolve(t)
    \/ \E c \in SubIds : CancelSubscription(c)
    \/ \E c \in SubIds : RaNotify(c)
    \/ RaSave
    \/ RaReturn
    \/ Tick

SpecCancel == InitCancel /\ [][NextCancel]_vars

\* ---------------------------------------------- specification: a discount

\* The checkout has found an applicable campaign of either type for a price.
InitQuote ==
    /\ InitTables
    /\ NoTrials
    /\ subs = [s \in SubIds |-> NoSub]
    /\ age = [s \in SubIds |-> 2]
    /\ gw = [t \in TxIds |-> NoTx]
    /\ \E ty \in QuoteTypes, v \in QuoteValues, p \in QuotePrices :
        rq = [kind |-> "quote", pc |-> "input", type |-> ty, value |-> v, price |-> p,
              discount |-> 0, amount |-> 0]

NextQuote == ApplyDiscount

SpecQuote == InitQuote /\ [][NextQuote]_vars

\* ------------------------------------------- specification: single sign-on

\* Company 1 is subscribed, company 2 is not and may be on trial; two clients
\* ask for tokens (without email for company 1, with email for company 2) and
\* follow login links while the tokens age.
InitSso ==
    /\ InitCommon
    /\ \E tr \in {"none", "active"} : trial = [c \in SubIds |-> IF c = 2 THEN tr ELSE "none"]
    /\ subs = [s \in SubIds |-> IF s = 1 THEN Sub("active", "monthly", 0, 30, 1, 1, 1) ELSE NoSub]
    /\ age = [s \in SubIds |-> 2]
    /\ gw = [t \in TxIds |-> NoTx]

NextSso ==
    \/ \E b \in Clients, rid \in RequestIds, secret_ok, fresh \in BOOLEAN :
            GenCheck(b, rid, rid, rid = 2, secret_ok, fresh)
    \/ \E b \in Clients : GenCreate(b)
    \/ \E b \in Clients, t \in TokenIds, active \in BOOLEAN : SsoGet(b, t, active)
    \/ \E b \in Clients : SsoLogin(b)
    \/ Wait(SSO_TOKEN_EXPIRY_MINUTES * 60 + 1)

SpecSso == InitSso /\ [][NextSso]_vars

\* ------------------------------------------------ specification: a session

\* One client obtains a token, logs in with it and goes on requesting pages
\* second by second, or logs out.
NextSession ==
    \/ \E rid \in RequestIds : GenCheck("b1", rid, 1, FALSE, TRUE, TRUE)
    \/ GenCreate("b1")
    \/ \E t \in TokenIds : SsoGet("b1", t, TRUE)
    \/ SsoLogin("b1")
    \/ MwCall("b1")
    \/ Logout("b1")
    \/ Wait(1)

SpecSession == InitSso /\ [][NextSession]_vars

\* ------------------------------------------------------------------ claims

\* Event e was never recorded from a delivery with an invalid signature.
NotForged(e) == LedgerStatus(e) # "invalid_signature"

C2_ExtendedOnce ==
    \A t \in TxIds :
        (/\ gw[t] # NoTx
         /\ gw[t].kind \in {"RETRY", "REACTIVATION"}
         /\ gw[t].status = "APPROVED"
         /\ \E m \in notes : m.tx = t /\ m.path \in {"retry", "upm"}
         /\ LedgerStatus(t) \in {"processed", "duplicate"}
         /\ \A u \in TxIds \ {t} : ext[u] = 0)
            => subs[gw[t].ref].pend = CycleDays(subs[gw[t].ref].cycle)

\* C3 (as claimed): when the reactivation notification of a reconciled retry
\* charge fails, the Subscription is still suspended.
C3_FailedNotificationKeepsSuspended ==
    \A m \in notes :
        (m.path = "webhook" /\ ~m.ok /\ NotForged(m.tx)) => subs[m.sub].status = "suspended"

\* C4 (as claimed): once the checkout has ended, its transaction is APPROVED
\* and the webhook of it was acknowledged (the ledger row is processed, so the
\* gateway redelivers no more), the Subscription exists and is active.
C4_ApprovedCheckoutActive ==
    \A t \in TxIds :
        (/\ gw[t] # NoTx
         /\ gw[t].kind = "FIRST"
         /\ gw[t].status = "APPROVED"
         /\ rq = IdleRq
         /\ LedgerStatus(t) \in {"processed", "duplicate"})
            => subs[gw[t].ref] # NoSub /\ subs[gw[t].ref].status = "active"

\* C5 (as claimed): an APPROVED event that matched no Subscription leaves its
\* ledger row failed.
C5_UnmatchedEndsFailed ==
    \A e \in TxIds :
        (/\ gw[e].status = "APPROVED"
         /\ Existing = {}
         /\ LedgerStatus(e) \notin {"none", "processing", "invalid_signature"})
            => LedgerStatus(e) = "failed"

\* C6 (as claimed): every delivery with an invalid signature is answered
\* unauthorized and recorded with status invalid_signature.
C6_InvalidSignatureRejected ==
    \A a \in resp : ~a.valid => (a.code \in {401, 403} /\ LedgerStatus(a.ev) = "invalid_signature")

\* C7: a delivery of an event whose ledger row is processed or duplicate leaves
\* the row duplicate, is answered 200, and changes no Subscription, no
\* Invoice and no count of applied transitions.
C7_DuplicateDelivery ==
    [][\A e \in TxIds :
         (\E a \in resp' \ resp :
              a.ev = e /\ a.valid /\ a.seen \in {"processed", "duplicate"})
            => /\ \A r \in ledger' : r.event = e => r.status = "duplicate"
               /\ \A a \in resp' \ resp : a.code = 200
               /\ subs' = subs
               /\ invoices' = invoices
               /\ applied' = applied
               /\ ext' = ext]_vars

\* C7 witness: a third delivery found the row already marked duplicate.
C7_Witness ==
    \E a \in resp : a.valid /\ a.seen = "duplicate" /\ a.code = 200 /\ applied[a.ev] = 1

\* The scheduler charge t was answered PENDING, is now APPROVED, the scheduler
\* has handled the answer and the webhook is processed, and no other charge
\* has written anything.
RecurringSettled(t) ==
    /\ gw[t] # NoTx
    /\ gw[t].kind = "RECURRING"
    /\ gw[t].answer = "PENDING"
    /\ gw[t].status = "APPROVED"
    /\ rq = IdleRq
    /\ LedgerStatus(t) \in {"processed", "duplicate"}
    /\ \A u \in TxIds \ {t} : first[u] = "none"

\* C8: after a scheduler charge answered PENDING and its APPROVED webhook are
\* both handled, in whichever order, there is exactly one Invoice of the
\* transaction (paid, of its amount), the period was extended once, and the
\* Subscription is active with the period of the charge day.
C8_OneInvoiceOneExtension ==
    \A t \in TxIds :
        RecurringSettled(t) =>
            LET s == gw[t].ref
            IN  /\ Cardinality(InvoicesOf(t)) = 1
                /\ \A i \in InvoicesOf(t) :
                        i.status = "paid" /\ i.amount = gw[t].amount /\ i.sub = s
                /\ ext[t] = 1
                /\ subs[s].status = "active"
                /\ subs[s].pstart = gw[t].day
                /\ subs[s].pend = gw[t].day + CycleDays(subs[s].cycle)

\* C8 witness: the settled state in which the webhook wrote before the
\* scheduler saved.
C8_Witness == \E t \in TxIds : RecurringSettled(t) /\ first[t] = "webhook"

\* C9: in every state there is at most one Invoice per transaction id.
C9_OneInvoicePerTransaction == \A t \in TxIds : Cardinality(InvoicesOf(t)) <= 1

\* C9 witness: a worker has passed the check for an existing Invoice and is
\* about to create one while billing_upgrade_plan has written the Invoice of
\* the same transaction.
C9_Witness ==
    \E h \in Handlers :
        /\ hs[h].pc = "invoice"
        /\ \E i \in InvoicesOf(hs[h].ev) : i.status = "pending"

\* C10 (as claimed): no step that extends a period for a charge lowers the
\* current_period_end of a Subscription.
C10_PeriodEndMonotone ==
    [][\A s \in SubIds :
         (ext' # ext /\ subs[s] # NoSub /\ subs'[s] # NoSub)
            => subs'[s].pend >= subs[s].pend]_vars

\* C11 (as claimed): in every state a paid Invoice of a recurring charge
\* exists exactly when the period extension it justifies has been saved.
C11_InvoiceWithExtension ==
    \A t \in TxIds :
        (gw[t] # NoTx /\ gw[t].kind = "REC" /\ NotForged(t))
            => ((\E i \in InvoicesOf(t) : i.status = "paid") <=> ext[t] >= 1)

\* C12 (as claimed): once the scheduler has handled the APPROVED answer of a
\* charge, exactly one Invoice exists for the transaction, paid and of the plan
\* price of the billing cycle, and the Subscription is active.
C12_ScheduledChargeInvoiced ==
    \A t \in TxIds :
        (/\ gw[t] # NoTx
         /\ gw[t].kind = "RECURRING"
         /\ gw[t].answer = "APPROVED"
         /\ first[t] # "none"
         /\ rq = IdleRq)
            => /\ Cardinality(InvoicesOf(t)) = 1
               /\ \A i \in InvoicesOf(t) :
                    i.status = "paid" /\ i.amount = PlanAmount(subs[gw[t].ref])
               /\ subs[gw[t].ref].status = "active"

\* C13 (as claimed): every step that extends the period for a charge sets
\* current_period_end to its previous value plus the days of the cycle.
C13_ExtendsFromPreviousEnd ==
    [][\A t \in TxIds :
         ext'[t] # ext[t]
            => subs'[gw[t].ref].pend
                 = subs[gw[t].ref].pend + CycleDays(subs[gw[t].ref].cycle)]_vars

\* C16 (as claimed): whenever the scheduler has charged a Subscription, the
\* row it loaded was active, had a payment source and a period that had ended.
C16_ChargesOnlyDue ==
    (rq.kind = "sched" /\ rq.pc = "save")
        => LET o == Head(rq.queue).obj
           IN  o.status = "active" /\ o.psrc # 0 /\ o.pend <= now

\* Transaction t created Subscription a and its reference names another
\* Subscription b.
Contested(t, a, b) ==
    /\ gw[t] # NoTx
    /\ subs[a] # NoSub
    /\ subs[b] # NoSub
    /\ a # b
    /\ subs[a].wsid = t
    /\ gw[t].ref = b

\* C14: for a payload whose transaction id is the creating transaction of
\* Subscription a and whose reference names Subscription b, no step changes b,
\* every Invoice of the transaction belongs to a, and once the APPROVED event
\* is processed a is active and has the Invoice.
C14_TransactionIdWins ==
    [][\A t \in TxIds, a \in SubIds, b \in SubIds :
         Contested(t, a, b)
            => /\ subs'[b] = subs[b]
               /\ \A i \in invoices' : i.tx = t => i.sub = a
               /\ \A r \in ledger' :
                    (r.event = t /\ r.status = "processed" /\ gw[t].status = "APPROVED")
                        => /\ subs'[a].status = "active"
                           /\ \E i \in invoices' : i.tx = t /\ i.sub = a
                           /\ r.sub = a]_vars

\* C14 witness: the event of a retry reference naming a suspended
\* Subscription b is processed with the Invoice on a.
C14_Witness ==
    \E t \in TxIds, a \in SubIds, b \in SubIds :
        /\ Contested(t, a, b)
        /\ gw[t].kind = "RETRY"
        /\ subs[b].status = "suspended"
        /\ LedgerStatus(t) = "processed"
        /\ \E i \in InvoicesOf(t) : i.sub = a
        /\ ext[t] = 1

\* C15 (as claimed): every item of a scheduler batch for which the gateway
\* was called belongs to a Subscription with a payment source.
C15_ChargedHavePaymentSource ==
    rq.kind = "sched"
        => \A i \in 1..Len(rq.results) :
              rq.results[i].status # "simulated" => subs[rq.results[i].sub].psrc # 0

\* The scheduler's loop has ended and its response is about to be returned.
SchedDone == rq.kind = "sched" /\ rq.pc = "item" /\ rq.queue = <<>>

\* C17: the response of a scheduler batch has exactly one result for each
\* selected Subscription, whatever failed on the way, and total_processed is
\* the sum of successful, failed and simulated.
C17_BatchCompletes ==
    SchedDone =>
        /\ Len(rq.results) = Cardinality(rq.sel)
        /\ {rq.results[i].sub : i \in 1..Len(rq.results)} = rq.sel
        /\ LET y == Summary(rq.results)
           IN  y.total_processed = y.successful + y.failed + y.simulated

\* C17 witness: a batch of two whose first item raised or was declined and
\* whose second item was charged.
C17_Witness ==
    /\ SchedDone
    /\ Len(rq.results) = 2
    /\ rq.results[1].status \in {"error", "failed"}
    /\ rq.results[2].status = "success"

\* C18: no step of a dry run changes a Subscription or an Invoice or creates
\* a transaction, every result it records is simulated with the amount of the
\* Subscription's plan and cycle, and at the end every selected Subscription
\* has its result.
C18_DryRunChangesNothing ==
    [][(rq.kind = "sched" /\ rq.dry)
         => /\ subs' = subs
            /\ invoices' = invoices
            /\ \A t \in TxIds : gw[t] = NoTx => gw'[t] = NoTx
            /\ rq'.kind = "sched"
                 => /\ \A i \in 1..Len(rq'.results) :
                         /\ rq'.results[i].status = "simulated"
                         /\ rq'.results[i].amount = PlanAmount(subs[rq'.results[i].sub])
                    /\ rq'.queue = <<>>
                         => {rq'.results[i].sub : i \in 1..Len(rq'.results)} = rq'.sel]_vars

\* C18 witness: a dry run over two selected Subscriptions has ended.
C18_Witness == SchedDone /\ rq.dry /\ Len(rq.results) = 2

\* The checkout in flight has been given, or is about to read, a declined
\* result for its transaction.
CheckoutDeclined ==
    /\ rq.kind = "checkout"
    /\ rq.st = "DECLINED" \/ (rq.pc = "poll" /\ gw[rq.tx].status = "DECLINED")

\* C19: once a checkout gets a declined result from the gateway (as the
\* first answer or at a polling round), no step stores a Subscription for the
\* company, changes a Trial or changes the campaign's usage counter.
C19_DeclinedCheckoutStoresNothing ==
    [][CheckoutDeclined
         => /\ subs'[rq.sid] = NoSub
            /\ trial' = trial
            /\ current_uses' = current_uses]_vars

\* C19 witness: the checkout of a company with an expired trial and a
\* discounted amount has ended on a decline that arrived while it polled.
C19_Witness ==
    \E t \in TxIds :
        /\ gw[t] # NoTx
        /\ gw[t].kind = "FIRST"
        /\ gw[t].answer = "PENDING"
        /\ gw[t].status = "DECLINED"
        /\ gw[t].amount < PriceMonthly(gw[t].plan)
        /\ rq = IdleRq
        /\ subs[gw[t].ref] = NoSub
        /\ trial[gw[t].ref] = "expired"
        /\ current_uses = 0

\* C20 (as claimed): a step of reactivate_subscription makes no charge and
\* leaves the period of every Subscription as it is stored; it changes status
\* and cancelled_at only from cancelled to active, within the period, after a
\* confirmed notification.
C20_ReactivationInGrace ==
    [][((\E c \in SubIds : RaNotify(c)) \/ RaSave \/ RaReturn)
         => /\ gw' = gw
            /\ \A c \in Existing :
                 /\ subs'[c].pstart = subs[c].pstart
                 /\ subs'[c].pend = subs[c].pend
                 /\ (subs'[c].status # subs[c].status \/ subs'[c].cancelled # subs[c].cancelled)
                      => /\ subs[c].status = "cancelled"
                         /\ subs'[c].status = "active"
                         /\ now <= subs[c].pend
                         /\ Note(c, TRUE, "reactivate", 0) \in notes]_vars

C22_DiscountedAmount ==
    (rq.kind = "quote" /\ rq.pc = "done" /\ rq.price >= 0)
        => /\ rq.type = "fixed" => rq.amount >= 0
           /\ (rq.type = "percentage" /\ rq.value = 10000) => rq.amount = 0

\* C22 witness: a fixed discount larger than the price has been applied.
C22_Witness ==
    /\ rq.kind = "quote"
    /\ rq.pc = "done"
    /\ rq.type = "fixed"
    /\ rq.value > rq.price
    /\ rq.price > 0
    /\ rq.amount = 0

\* C23 (as claimed): no SSO token starts more than one session, whichever
\* way the login requests that carry it are interleaved.
C23_TokenLogsInOnce == \A t \in TokenIds : logins[t] <= 1

\* C24: no step leaves two tokens with one request_id, and a request with a
\* valid secret and a fresh timestamp whose request_id a token already holds
\* creates no token and is answered 400.
C24_OneTokenPerRequestId ==
    [][/\ \A rid \in RequestIds : Cardinality({k \in tokens' : k.request_id = rid}) <= 1
       /\ \A b \in Clients, rid \in RequestIds, account \in SubIds, email \in BOOLEAN :
            (GenCheck(b, rid, account, email, TRUE, TRUE)
                /\ \E k \in tokens : k.request_id = rid)
              => /\ tokens' = tokens
                 /\ sh'[b] = IdleSso
                 /\ sresp'.to = b
                 /\ sresp'.op = "generate"
                 /\ sresp'.arg = rid
                 /\ sresp'.code = 400]_vars

\* C24 witness: a request with a request_id already used has just been
\* rejected, the one token of that request_id still the only one.
C24_Witness ==
    /\ sresp.op = "generate"
    /\ sresp.code = 400
    /\ sresp.err = "duplicate_request_id"
    /\ Cardinality({k \in tokens : k.request_id = sresp.arg}) = 1

\* C25: behind the middleware, a request of an authenticated session that
\* comes more than AUTO_LOGOUT_DELAY seconds after last_activity leaves the
\* session without user and without last_activity; one that comes within the
\* delay keeps the user and sets last_activity to the time of the request; a
\* request of an anonymous session leaves it without last_activity.
C25_AutoLogout ==
    [][\A b \in Clients :
          (MwCall(b) \/ \E t \in TokenIds, active \in BOOLEAN : SsoGet(b, t, active))
            => LET s == sessions[b]
                   z == sessions'[b]
               IN  /\ (s.user # 0 /\ s.last # <<>> /\ clock - s.last[1] > AUTO_LOGOUT_DELAY)
                        => (z.user = 0 /\ z.last = <<>>)
                   /\ (s.user # 0 /\ s.last # <<>> /\ clock - s.last[1] <= AUTO_LOGOUT_DELAY)
                        => (z.user = s.user /\ z.last = <<clock>>)
                   /\ s.user = 0 => z.last = <<>>]_vars

\* C25 witness: a request has just been logged out for inactivity and its
\* session flushed.
C25_Witness ==
    /\ sresp.op = "page"
    /\ sresp.err = "auto_logout"
    /\ sessions[sresp.to] = NewSession

\* C26 (as claimed): a delivery that finds a Subscription for an APPROVED
\* payload and an Invoice already stored for the transaction creates no
\* Invoice and leaves the Subscription active.
C26_ExistingInvoiceStillActive ==
    [][\A h \in Handlers :
          (hs[h].pc = "flip" /\ InvoicesOf(hs[h].ev) # {} /\ ~hs'[h].exc)
            => /\ invoices' = invoices
               /\ subs'[hs[h].sid].status = "active"]_vars

\* C28 (as claimed): a delivery during whose reconciliation an exception was
\* raised leaves its ledger row failed, and is answered.
C28_ExceptionEndsFailed ==
    [][\A h \in Handlers :
          (hs[h].exc /\ hs'[h] = IdleHandler)
            => /\ \A r \in ledger' : r.pk = hs[h].wid => r.status = "failed"
               /\ \E a \in resp' : a.n = hs[h].n]_vars

\* The Subscriptions the claimed precedence list selects for transaction t:
\* creating transaction id, then payment source, then structured reference,
\* then e-mail.
ClaimedMatch(t) ==
    IF ByTransaction(t) # {} THEN ByTransaction(t)
    ELSE IF ByPaymentSource(t) # {} THEN ByPaymentSource(t)
    ELSE IF ByReference(t) \cup ByFirstReference(t) # {}
         THEN ByReference(t) \cup ByFirstReference(t)
    ELSE ByEmail(t)

\* C27 (as claimed): the Subscription a delivery resolves is the one the
\* first matching strategy yields, in the order transaction id, payment
\* source, structured reference, e-mail.
C27_FirstMatchWins ==
    [][\A h \in Handlers :
         (hs[h].pc = "find" /\ hs'[h].pc = "flip")
            => hs'[h].sid \in ClaimedMatch(hs[h].ev)]_vars

\* C29 (as claimed): a delivery that finds its event's ledger row failed
\* moves the row to processing and runs the reconciliation again; when that
\* run raises nothing and is answered 200, the row is processed and refers to
\* the Subscription the reconciliation resolved and to the Invoice of the
\* transaction.
C29_FailedIsRetried ==
    [][\A h \in Handlers :
         LET e == hs[h].ev
         IN  /\ (hs[h].pc = "claim" /\ hs[h].seen = "failed" /\ hs'[h] # hs[h])
                    => /\ hs'[h].pc = "find"
                       /\ \A r \in ledger' : r.event = e => r.status = "processing"
             /\ (/\ hs[h].pc = "finish" /\ hs[h].seen = "failed" /\ ~hs[h].exc
                 /\ \E a \in resp' : a.n = hs[h].n /\ a.code = 200)
                    => \A r \in ledger' :
                         r.pk = hs[h].wid
                            => /\ r.status = "processed"
                               /\ (gw[e].status = "APPROVED" /\ hs[h].sid # 0)
                                     => /\ r.sub = hs[h].sid
                                        /\ \E i \in InvoicesOf(e) : r.inv = i.pk]_vars

\* C30: a validly signed delivery whose event has a ledger row in status
\* processing is answered 200 and changes neither the ledger, nor a
\* Subscription, nor an Invoice, and starts no reconciliation.
C30_ProcessingIsNoOp ==
    [][\A h \in Handlers, e \in TxIds :
         (WhReceive(h, e) /\ LedgerStatus(e) = "processing")
            => /\ ledger' = ledger
               /\ subs' = subs
               /\ invoices' = invoices
               /\ hs' = hs
               /\ \E a \in resp' \ resp :
                    a.ev = e /\ a.seen = "processing" /\ a.code = 200]_vars

\* C30 witness: a delivery was answered 200 while another worker held the
\* event's row in status processing.
C30_Witness ==
    \E a \in resp :
        /\ a.valid
        /\ a.seen = "processing"
        /\ a.code = 200
        /\ \E h \in Handlers : hs[h].ev = a.ev /\ hs[h].pc # "idle"

\* C31: when a handler that saw no ledger row for its event reaches the
\* insert after another handler has inserted the row, its step adds no row and
\* ends the delivery without touching a Subscription or an Invoice; there is
\* never more than one row per event, and never two handlers reconciling the
\* same previously unseen event.
C31_OneRowOneReconciler ==
    [][/\ \A e \in TxIds : Cardinality({r \in ledger' : r.event = e}) <= 1
       /\ \A h \in Handlers :
            (/\ hs[h].pc = "claim" /\ hs[h].seen = "none"
             /\ LedgerOf(hs[h].ev) # {} /\ hs'[h] # hs[h])
                => /\ hs'[h] = IdleHandler
                   /\ ledger' = ledger
                   /\ subs' = subs
                   /\ invoices' = invoices
                   /\ ext' = ext
       /\ \A h1 \in Handlers, h2 \in Handlers :
            (/\ h1 # h2 /\ hs'[h1].ev = hs'[h2].ev
             /\ hs'[h1].seen = "none" /\ hs'[h2].seen = "none"
             /\ hs'[h1].pc \notin {"idle", "claim"})
                => hs'[h2].pc \in {"idle", "claim"}]_vars

\* C31 witness: of two handlers that both saw no row for the event, one lost
\* the insert and was answered 500 while the other is reconciling under the
\* only row.
C31_Witness ==
    \E h \in Handlers, a \in resp :
        /\ hs[h].seen = "none"
        /\ hs[h].pc \in {"invoice", "extend", "finish"}
        /\ a.ev = hs[h].ev /\ a.n # hs[h].n
        /\ a.valid /\ a.seen = "none" /\ a.code = 500
        /\ faults = 0
        /\ Cardinality(LedgerOf(hs[h].ev)) = 1

\* C32 (as claimed): a validly signed delivery of an event whose id was
\* recorded earlier from a delivery with an invalid signature is answered 200
\* and leaves the event's ledger row processed.
C32_ForgedLeavesNoTrace ==
    [][\A h \in Handlers :
         (/\ hs[h].seen = "invalid_signature" /\ hs[h].pc = "finish"
          /\ hs'[h] = IdleHandler)
            => /\ \E a \in resp' : a.n = hs[h].n /\ a.code = 200
               /\ \A r \in ledger' : r.event = hs[h].ev => r.status = "processed"]_vars

\* C33: every step a handler takes while reconciling an APPROVED first
\* payment (reference LYVIO-FIRST-) leaves the period of the Subscription it
\* resolved as it was, and the step that finds the Subscription pending
\* stores it as active; this in each matching branch.
C33_FirstPaymentKeepsPeriod ==
    [][\A h \in Handlers :
         (/\ hs[h].pc \in {"flip", "invoice", "extend"}
          /\ hs'[h] # hs[h]
          /\ gw[hs[h].ev].kind = "FIRST")
            => /\ subs'[hs[h].sid].pstart = subs[hs[h].sid].pstart
               /\ subs'[hs[h].sid].pend = subs[hs[h].sid].pend
               /\ hs'[h].pc # "extend"
               /\ (hs[h].pc = "flip" /\ hs[h].obj.status = "pending")
                     => subs'[hs[h].sid].status = "active"]_vars

\* C33 witness: a first payment matched by its payment source has activated
\* the pending Subscription and written the Invoice, the period being the one
\* set at creation.
C33_Witness ==
    \E h \in Handlers :
        /\ hs[h].pc = "finish"
        /\ hs[h].branch = "psrc"
        /\ hs[h].mut
        /\ gw[hs[h].ev].kind = "FIRST"
        /\ subs[hs[h].sid].status = "active"
        /\ subs[hs[h].sid].pstart = 0 /\ subs[hs[h].sid].pend = 30
        /\ \E i \in InvoicesOf(hs[h].ev) : i.sub = hs[h].sid

\* C34: no step of a handler on a delivery whose transaction was declined
\* creates an Invoice or changes any field of a Subscription.
C34_DeclinedChangesNothing ==
    [][/\ \A h \in Handlers, e \in TxIds :
            (WhReceive(h, e) /\ gw[e].status = "DECLINED")
                => subs' = subs /\ invoices' = invoices
       /\ \A h \in Handlers :
            (/\ hs[h].pc # "idle" /\ hs'[h] # hs[h]
             /\ gw[hs[h].ev].status = "DECLINED")
                => /\ subs' = subs
                   /\ invoices' = invoices
                   /\ hs'[h].pc \in {"find", "finish", "idle"}]_vars

\* C34 witness: the declined charge of an existing Subscription that its
\* payload would match has been processed, and no Invoice was written.
C34_Witness ==
    \E e \in TxIds :
        /\ gw[e].status = "DECLINED"
        /\ MatchBranch(e) # "nomatch"
        /\ LedgerStatus(e) = "processed"
        /\ InvoicesOf(e) = {}

\* C35 (as claimed): the scheduler's save after a synchronous answer PENDING
\* leaves current_period_end of the charged Subscription unchanged, and a
\* Subscription whose scheduler transaction ended DECLINED at the gateway
\* holds no period extension counted for that transaction.
C35_ExtendedOnlyWhenApproved ==
    [][/\ (rq.kind = "sched" /\ rq.pc = "save" /\ rq.st = "PENDING" /\ rq' # rq)
            => subs'[Head(rq.queue).sid].pend = subs[Head(rq.queue).sid].pend
       /\ \A t \in TxIds :
            (gw'[t].status = "DECLINED" /\ gw'[t].kind = "RECURRING") => ext'[t] = 0]_vars

\* C36 (as claimed): once the APPROVED webhook of a transaction has been
\* processed, the Invoice that the upgrade view recorded for that transaction
\* is paid.
C36_PendingInvoiceResolved ==
    \A t \in TxIds :
        (/\ gw[t].status = "APPROVED"
         /\ gw[t].kind = "UPGRADE"
         /\ LedgerStatus(t) \in {"processed", "duplicate"})
            => \A i \in InvoicesOf(t) : i.status = "paid"

\* The edges of the Subscription state machine.
StatusEdges ==
    { <<"pending", "active">>, <<"active", "cancelled">>, <<"cancelled", "active">>,
      <<"suspended", "active">>, <<"past_due", "active">>, <<"active", "suspended">>,
      <<"active", "past_due">> }

\* C37 (as claimed): every change of the status of a stored Subscription is
\* an edge of the state machine; cancellation and suspension change only an
\* active Subscription.
C37_ExplicitEdges ==
    [][\A s \in SubIds :
         (subs[s] # NoSub /\ subs'[s] # NoSub /\ subs'[s].status # subs[s].status)
            => <<subs[s].status, subs'[s].status>> \in StatusEdges]_vars

\* C38 (as claimed): whenever a Subscription with a payment source is
\* suspended or past_due and no request is being served, both retry_payment
\* and update_payment_method accept it, so that an APPROVED charge can make it
\* active.
C38_PastDueCanRecover ==
    \A c \in SubIds :
        (/\ subs[c] # NoSub
         /\ subs[c].status \in {"suspended", "past_due"}
         /\ subs[c].psrc # 0 /\ subs[c].psrc < MaxSource
         /\ rq = IdleRq
         /\ FreeTx # {})
            => (ENABLED RpCharge(c)) /\ (ENABLED UpmRead(c))

\* C39 (as claimed): the save of update_payment_method stores the new
\* payment source and leaves the status and the period of the row as they
\* are in the table at that moment, whatever another handler committed since
\* the view loaded the row.
C39_NoLostUpdate ==
    [][(rq.kind = "upm" /\ rq.pc = "save" /\ rq' # rq)
          => /\ subs'[rq.sid].status = subs[rq.sid].status
             /\ subs'[rq.sid].pstart = subs[rq.sid].pstart
             /\ subs'[rq.sid].pend = subs[rq.sid].pend]_vars

\* C40: in every state reached by two interleaved checkouts that validate
\* the campaign, apply it and count the use, current_uses is at most
\* max_uses.
C40_UsesWithinCap == current_uses <= MaxUses

\* C40 witness: both companies were charged the discounted price and both
\* checkouts have stored their Subscription and counted their use, the second
\* having validated the campaign before the first counted.
C40_Witness ==
    /\ rq = IdleRq /\ peer = IdleRq
    /\ \A c \in SubIds : subs[c] # NoSub /\ trial[c] = "converted"
    /\ \A t \in TxIds :
         /\ gw[t] # NoTx
         /\ gw[t].amount \notin {PriceMonthly(gw[t].plan), PriceYearly(gw[t].plan)}
    /\ current_uses = MaxUses
====
